---------------------------- MODULE Spec2Model ----------------------------
(***************************************************************************)
(* A model of xxhash.c: the four hash families XXH32, XXH64, XXH32a and    *)
(* XXH64a, their one-shot functions, their streaming states                *)
(* (reset / update / digest / copyState) and the canonical representation. *)
(*                                                                         *)
(* Machine words are sequences of 16-bit limbs, least significant first    *)
(* (a U32 is 2 limbs, a U64 is 4 limbs), so that all arithmetic is exact   *)
(* modulo 2^32 resp. 2^64.  Memory is a sequence of bytes; a multi-byte    *)
(* load assembles the bytes in the byte order of the host.                 *)
(***************************************************************************)
EXTENDS Integers, Sequences, FiniteSets, TLC

(***************************************************************************)
(* Word arithmetic (the C operators on U32 / U64).  A word is a sequence   *)
(* of 16-bit limbs, least significant first: 2 limbs for U32, 4 for U64.   *)
(* Every intermediate value stays below 2^31.                              *)
(***************************************************************************)
\* 2^k for k in 0..16
P2(k) ==
    <<1, 2, 4, 8, 16, 32, 64, 128, 256, 512, 1024, 2048, 4096, 8192, 16384, 32768, 65536>>[k + 1]

\* the word holding the natural x (x < 2^31)
U32(x) == <<x % 65536, x \div 65536>>
U64(x) == <<x % 65536, x \div 65536, 0, 0>>

\* a word written as its bytes, most significant first (as a hex literal reads)
Hex32(b) == <<256 * b[3] + b[4], 256 * b[1] + b[2]>>
Hex64(b) == <<256 * b[7] + b[8], 256 * b[5] + b[6], 256 * b[3] + b[4], 256 * b[1] + b[2]>>

\* the bytes of a word, least significant first, and the word of such bytes
Bytes(w) ==
    SubSeq([i \in 1..(2 * Len(w)) |->
               IF i % 2 = 1 THEN w[(i + 1) \div 2] % 256 ELSE w[i \div 2] \div 256],
           1, 2 * Len(w))

Word(b) == SubSeq([i \in 1..(Len(b) \div 2) |-> b[2 * i - 1] + 256 * b[2 * i]], 1, Len(b) \div 2)

\* (U32)x of a U64, (U64)x of a U32
Trunc32(w) == <<w[1], w[2]>>
Ext64(w) == <<w[1], w[2], 0, 0>>

\* a + b modulo 2^32 resp. 2^64
Add(a, b) ==
    LET s1 == a[1] + b[1]
        s2 == a[2] + b[2] + s1 \div 65536
    IN  IF Len(a) = 2 THEN <<s1 % 65536, s2 % 65536>>
        ELSE LET s3 == a[3] + b[3] + s2 \div 65536
                 s4 == a[4] + b[4] + s3 \div 65536
             IN  <<s1 % 65536, s2 % 65536, s3 % 65536, s4 % 65536>>

\* a - b (unsigned, modulo the width): a + ~b + 1
Sub(a, b) ==
    Add(a, Add(SubSeq([i \in 1..Len(b) |-> 65535 - b[i]], 1, Len(b)),
               IF Len(b) = 2 THEN <<1, 0>> ELSE <<1, 0, 0, 0>>))

\* a * b modulo the width.  b is split into bytes, even ones (weight 1 in
\* their limb) and odd ones (weight 256); A(k) and B(k) are the column sums
\* of limb k for the two, so that a * b = SUM (A(k) + 256 * B(k)) * 2^(16k).
Mul(a, b) ==
    LET n == Len(a)
        be(i) == b[i] % 256
        bo(i) == b[i] \div 256
        A1 == a[1] * be(1)
        B1 == a[1] * bo(1)
        A2 == a[1] * be(2) + a[2] * be(1)
        B2 == a[1] * bo(2) + a[2] * bo(1)
        T1 == A1 + 256 * (B1 % 256)
        T2 == A2 + 256 * (B2 % 256) + B1 \div 256 + T1 \div 65536
    IN  IF n = 2 THEN <<T1 % 65536, T2 % 65536>>
        ELSE LET A3 == a[1] * be(3) + a[2] * be(2) + a[3] * be(1)
                 B3 == a[1] * bo(3) + a[2] * bo(2) + a[3] * bo(1)
                 A4 == a[1] * be(4) + a[2] * be(3) + a[3] * be(2) + a[4] * be(1)
                 B4 == a[1] * bo(4) + a[2] * bo(3) + a[3] * bo(2) + a[4] * bo(1)
                 T3 == A3 + 256 * (B3 % 256) + B2 \div 256 + T2 \div 65536
                 T4 == A4 + 256 * (B4 % 256) + B3 \div 256 + T3 \div 65536
             IN  <<T1 % 65536, T2 % 65536, T3 % 65536, T4 % 65536>>

\* x ^ y on 16-bit limbs, bit by bit: bit i of the result is the parity of
\* the bits i of x and y
Xor16(x, y) ==
      ((x + y) % 2)
    + 2 * (((x \div 2) + (y \div 2)) % 2)
    + 4 * (((x \div 4) + (y \div 4)) % 2)
    + 8 * (((x \div 8) + (y \div 8)) % 2)
    + 16 * (((x \div 16) + (y \div 16)) % 2)
    + 32 * (((x \div 32) + (y \div 32)) % 2)
    + 64 * (((x \div 64) + (y \div 64)) % 2)
    + 128 * (((x \div 128) + (y \div 128)) % 2)
    + 256 * (((x \div 256) + (y \div 256)) % 2)
    + 512 * (((x \div 512) + (y \div 512)) % 2)
    + 1024 * (((x \div 1024) + (y \div 1024)) % 2)
    + 2048 * (((x \div 2048) + (y \div 2048)) % 2)
    + 4096 * (((x \div 4096) + (y \div 4096)) % 2)
    + 8192 * (((x \div 8192) + (y \div 8192)) % 2)
    + 16384 * (((x \div 16384) + (y \div 16384)) % 2)
    + 32768 * (((x \div 32768) + (y \div 32768)) % 2)

\* x | y on 16-bit limbs: x + y = (x ^ y) + 2 * (x & y) and
\* x | y = (x ^ y) + (x & y)
Or16(x, y) == (x + y + Xor16(x, y)) \div 2

Xor(a, b) == SubSeq([i \in 1..Len(a) |-> Xor16(a[i], b[i])], 1, Len(a))

Or(a, b) == SubSeq([i \in 1..Len(a) |-> Or16(a[i], b[i])], 1, Len(a))

\* Limb j of a, zero outside the word
Limb(a, j) == IF j < 1 \/ j > Len(a) THEN 0 ELSE a[j]

\* a >> k and a << k for 0 <= k <= width: limb i takes the bits of two
\* neighbouring limbs, k \div 16 limbs away
Shr(a, k) ==
    SubSeq([i \in 1..Len(a) |->
               (Limb(a, i + (k \div 16)) \div P2(k % 16))
               + ((Limb(a, i + (k \div 16) + 1) % P2(k % 16)) * P2(16 - (k % 16)))],
           1, Len(a))

Shl(a, k) ==
    SubSeq([i \in 1..Len(a) |->
               ((Limb(a, i - (k \div 16)) % P2(16 - (k % 16))) * P2(k % 16))
               + (Limb(a, i - (k \div 16) - 1) \div P2(16 - (k % 16)))],
           1, Len(a))

\* XXH_rotl32 / XXH_rotl64: ((x << r) | (x >> (width - r)))
XXH_rotl32(x, r) == IF Len(x) = 2 THEN Or(Shl(x, r), Shr(x, 32 - r)) ELSE <<>>
XXH_rotl64(x, r) == IF Len(x) = 4 THEN Or(Shl(x, r), Shr(x, 64 - r)) ELSE <<>>

\* w >= n for a natural n < 2^16
GeSmall(w, n) == (\E i \in 2..Len(w) : w[i] # 0) \/ w[1] >= n

(***************************************************************************)
(* Memory.  A region is a record: addr, its address (0 is NULL); bytes,    *)
(* its contents; past, the byte value a load beyond its end yields (such   *)
(* a load is undefined behaviour: the environment picks the value).        *)
(* Pointers into a region are byte offsets from its start.                 *)
(***************************************************************************)
NULL == [addr |-> 0, bytes |-> <<>>, past |-> 0]

Region(a, s, g) == [addr |-> a, bytes |-> s, past |-> g]

ByteAt(m, o) == IF o >= 0 /\ o < Len(m.bytes) THEN m.bytes[o + 1] ELSE m.past

\* XXH_CPU_LITTLE_ENDIAN: the byte order of the host is part of the build
\* configuration cfg, as are the tuning macros.
XXH_littleEndian == "XXH_littleEndian"
XXH_bigEndian == "XXH_bigEndian"
XXH_aligned == "XXH_aligned"
XXH_unaligned == "XXH_unaligned"

\* XXH_read32 / XXH_read64 and the aligned dereference *(const U32*)ptr:
\* a native load, first byte least significant on a little-endian host and
\* most significant on a big-endian one
NativeLoad(cfg, m, o, n) ==
    Word(SubSeq([i \in 1..n |-> ByteAt(m, IF cfg.cpuLE THEN o + i - 1 ELSE o + n - i)], 1, n))

XXH_read32(cfg, m, o) == NativeLoad(cfg, m, o, 4)

\* *(const U32*)ptr / *(const U64*)ptr, a load of an n-byte word through a
\* pointer cast.  At an address that is no multiple of n its behaviour is
\* undefined: the host of cfg either carries it out as XXH_read32 does, or
\* (cfg.strictAlign) ignores the low bits of the address
XXH_deref(cfg, m, o, n) ==
    NativeLoad(cfg, m, IF cfg.strictAlign THEN o - ((m.addr + o) % n) ELSE o, n)

\* the byte reversal of a 16-bit limb, and XXH_swap32
Swap16(x) == 256 * (x % 256) + x \div 256

\* a 32-bit load that is left in the byte order of the host
XXH_swap32_none(w) == w

XXH_swap32(w) == <<Swap16(w[2]), Swap16(w[1])>>

\* the value loaded is XXH_read32(ptr) if align is XXH_unaligned, else
\* *(const U32*)ptr; it is swapped unless endian is XXH_littleEndian
XXH_readLE32_align(cfg, m, o, endian, align) ==
    IF endian = XXH_littleEndian
    THEN IF align = XXH_unaligned THEN XXH_read32(cfg, m, o) ELSE XXH_deref(cfg, m, o, 4)
    ELSE XXH_swap32(IF align = XXH_unaligned THEN XXH_read32(cfg, m, o)
                    ELSE XXH_deref(cfg, m, o, 4))

\* XXH_CPU_LITTLE_ENDIAN ? XXH_swap32(XXH_read32(ptr)) : XXH_read32(ptr)
XXH_readBE32(cfg, m, o) ==
    IF cfg.cpuLE THEN XXH_swap32(XXH_read32(cfg, m, o)) ELSE XXH_read32(cfg, m, o)

(***************************************************************************)
(* 32-bit hash functions                                                   *)
(***************************************************************************)
PRIME32_1 == Hex32(<<158, 55, 121, 177>>)   \* 2654435761 = 0x9E3779B1
PRIME32_2 == Hex32(<<133, 235, 202, 119>>)  \* 2246822519 = 0x85EBCA77
PRIME32_3 == Hex32(<<194, 178, 174, 61>>)   \* 3266489917 = 0xC2B2AE3D
PRIME32_4 == Hex32(<<39, 212, 235, 47>>)    \*  668265263 = 0x27D4EB2F
PRIME32_5 == Hex32(<<22, 86, 103, 177>>)    \*  374761393 = 0x165667B1

\* seed += input * PRIME32_2; seed = XXH_rotl32(seed, 13); seed *= PRIME32_1
XXH32_round(seed, input) ==
    Mul(XXH_rotl32(Add(seed, Mul(input, PRIME32_2)), 13), PRIME32_1)

\* h ^= h >> s
XXH_xorshift(h, s) == Xor(h, Shr(h, s))

XXH32_avalanche(h32) ==
    XXH_xorshift(Mul(XXH_xorshift(Mul(XXH_xorshift(h32, 15), PRIME32_2), 13), PRIME32_3), 16)

\* the two steps of XXH32_finalize, on the pair <<h32, p>>
XXH32_PROCESS1(cfg, hp, m) ==
    << Mul(XXH_rotl32(Add(hp[1], Mul(U32(ByteAt(m, hp[2])), PRIME32_5)), 11), PRIME32_1),
       hp[2] + 1 >>

XXH32_PROCESS4(cfg, hp, m, endian, align) ==
    << Mul(XXH_rotl32(Add(hp[1], Mul(XXH_readLE32_align(cfg, m, hp[2], endian, align),
                                     PRIME32_3)), 17), PRIME32_4),
       hp[2] + 4 >>

\* the switch of XXH32_finalize: the steps run from case label n on, with
\* its fallthroughs; 4 is PROCESS4, 1 is PROCESS1, the return ends the list
RECURSIVE XXH32_switch(_)
XXH32_switch(n) ==
    CASE n \in {28, 24, 20, 16, 12, 8}  -> <<4>> \o XXH32_switch(n - 4)
      [] n = 4                          -> <<4>>
      [] n \in {29, 25, 21, 17, 13, 9}  -> <<4>> \o XXH32_switch(n - 4)
      [] n = 5                          -> <<4, 1>>
      [] n \in {30, 26, 22, 18, 14, 10} -> <<4>> \o XXH32_switch(n - 4)
      [] n = 6                          -> <<4, 1, 1>>
      [] n \in {31, 27, 23, 19, 15, 11, 7} -> <<4>> \o XXH32_switch(n - 4)
      [] n \in {3, 2, 1}                -> <<1>> \o XXH32_switch(n - 1)
      [] n = 0                          -> <<>>

RECURSIVE XXH32_steps(_, _, _, _, _, _)
XXH32_steps(cfg, hp, m, steps, endian, align) ==
    IF Len(hp) # 2 \/ steps = <<>> THEN hp
    ELSE XXH32_steps(cfg, IF Head(steps) = 4 THEN XXH32_PROCESS4(cfg, hp, m, endian, align)
                          ELSE XXH32_PROCESS1(cfg, hp, m),
                     m, Tail(steps), endian, align)

\* a finalizer that returns the running hash as it stands after the steps
XXH32_finalize_raw(cfg, h32, m, p, len, endian, align) ==
    XXH32_steps(cfg, <<h32, p>>, m, XXH32_switch(len % 32), endian, align)[1]

XXH32_finalize(cfg, h32, m, p, len, endian, align) ==
    XXH32_avalanche(XXH32_steps(cfg, <<h32, p>>, m, XXH32_switch(len % 32), endian, align)[1])

\* the four lanes v (a sequence of 4 words) after one 16-byte stripe at p
XXH32_stripe(cfg, v, m, p, endian, align) ==
    SubSeq([i \in 1..4 |->
               XXH32_round(v[i], XXH_readLE32_align(cfg, m, p + 4 * (i - 1), endian, align))],
           1, 4)

\* do { ... p += 16; } while (p < limit), on the pair <<v, p>>; first is set
\* on entry, where the body runs unconditionally.  The aligned loop
\* dereferences palign[i], the other uses XXH_get32bits: both are
\* XXH_readLE32_align with the endian and align of the call
RECURSIVE XXH32_loop(_, _, _, _, _, _, _, _)
XXH32_loop(cfg, v, m, p, limit, first, endian, align) ==
    IF Len(v) = 4 /\ (first \/ p < limit)
    THEN XXH32_loop(cfg, XXH32_stripe(cfg, v, m, p, endian, align), m, p + 16, limit, FALSE,
                    endian, align)
    ELSE <<v, p>>

\* a one-shot function without the null test: it works with the length it
\* is given
NullAsEmpty_keep(cfg, input, len) == len

\* #if XXH_ACCEPT_NULL_INPUT_POINTER: if (p==NULL) len=0; the length a
\* one-shot function works with
NullAsEmpty(cfg, input, len) == IF cfg.acceptNull /\ input.addr = 0 THEN 0 ELSE len

\* seed + PRIME32_1 + PRIME32_2, seed + PRIME32_2, seed + 0, seed - PRIME32_1
XXH32_lanes(seed) ==
    << Add(Add(seed, PRIME32_1), PRIME32_2),
       Add(seed, PRIME32_2),
       Add(seed, U32(0)),
       Sub(seed, PRIME32_1) >>

\* XXH_rotl32(v1, 1) + XXH_rotl32(v2, 7) + XXH_rotl32(v3, 12) + XXH_rotl32(v4, 18)
XXH32_merge(v) ==
    Add(Add(Add(XXH_rotl32(v[1], 1), XXH_rotl32(v[2], 7)), XXH_rotl32(v[3], 12)),
        XXH_rotl32(v[4], 18))

\* h32 and p where the stripes end, as the pair <<h32, p>>
XXH32_merged(lp) == <<XXH32_merge(lp[1]), lp[2]>>

\* h32 += (U32)len; return XXH32_finalize(h32, p, len&15, endian, align)
XXH32_finish(cfg, hp, input, len, endian, align) ==
    XXH32_finalize(cfg, Add(hp[1], U32(len)), input, hp[2], len % 16, endian, align)

\* XXH32_endian_align (scalar build, XXH_NEON undefined); len is the len
\* argument, which is the size of input unless input is NULL
XXH32_endian_align(cfg, input, len, seed, endian, align) ==
    XXH32_finish(cfg,
                 IF NullAsEmpty(cfg, input, len) >= 16
                 THEN XXH32_merged(XXH32_loop(cfg, XXH32_lanes(seed), input, 0,
                                              NullAsEmpty(cfg, input, len) - 15, TRUE,
                                              endian, align))
                 ELSE <<Add(seed, PRIME32_5), 0>>,
                 input, NullAsEmpty(cfg, input, len), endian, align)

\* XXH_FORCE_ALIGN_CHECK and ((size_t)input) & mask: the alignment a
\* one-shot function works with, and the endianness the public functions
\* pass down, by XXH_FORCE_NATIVE_FORMAT
XXH_alignOf(cfg, input, mask) ==
    IF cfg.alignCheck /\ input.addr % (mask + 1) = 0 THEN XXH_aligned ELSE XXH_unaligned

\* a native format that is taken for big-endian wherever it is forced
Endian_forced(cfg) ==
    IF cfg.cpuLE /\ ~cfg.forceNative THEN XXH_littleEndian ELSE XXH_bigEndian

Endian(cfg) == IF cfg.cpuLE \/ cfg.forceNative THEN XXH_littleEndian ELSE XXH_bigEndian

XXH32(cfg, input, len, seed) ==
    XXH32_endian_align(cfg, input, len, seed, Endian(cfg), XXH_alignOf(cfg, input, 3))

(***************************************************************************)
(* 64-bit hash functions                                                   *)
(***************************************************************************)
XXH_read64(cfg, m, o) == NativeLoad(cfg, m, o, 8)

XXH_swap64(w) == <<Swap16(w[4]), Swap16(w[3]), Swap16(w[2]), Swap16(w[1])>>

XXH_readLE64_align(cfg, m, o, endian, align) ==
    IF endian = XXH_littleEndian
    THEN IF align = XXH_unaligned THEN XXH_read64(cfg, m, o) ELSE XXH_deref(cfg, m, o, 8)
    ELSE XXH_swap64(IF align = XXH_unaligned THEN XXH_read64(cfg, m, o)
                    ELSE XXH_deref(cfg, m, o, 8))

\* XXH_CPU_LITTLE_ENDIAN ? XXH_swap64(XXH_read64(ptr)) : XXH_read64(ptr)
XXH_readBE64(cfg, m, o) ==
    IF cfg.cpuLE THEN XXH_swap64(XXH_read64(cfg, m, o)) ELSE XXH_read64(cfg, m, o)

PRIME64_1 == Hex64(<<158, 55, 121, 177, 133, 235, 202, 135>>)  \* 0x9E3779B185EBCA87
PRIME64_2 == Hex64(<<194, 178, 174, 61, 39, 212, 235, 79>>)    \* 0xC2B2AE3D27D4EB4F
PRIME64_3 == Hex64(<<22, 86, 103, 177, 158, 55, 121, 249>>)    \* 0x165667B19E3779F9
PRIME64_4 == Hex64(<<133, 235, 202, 119, 194, 178, 174, 99>>)  \* 0x85EBCA77C2B2AE63
PRIME64_5 == Hex64(<<39, 212, 235, 47, 22, 86, 103, 197>>)     \* 0x27D4EB2F165667C5

\* acc += input * PRIME64_2; acc = XXH_rotl64(acc, 31); acc *= PRIME64_1
XXH64_round(acc, input) ==
    Mul(XXH_rotl64(Add(acc, Mul(input, PRIME64_2)), 31), PRIME64_1)

XXH64_mergeRound(acc, val) ==
    Add(Mul(Xor(acc, XXH64_round(U64(0), val)), PRIME64_1), PRIME64_4)

XXH64_avalanche(h64) ==
    XXH_xorshift(Mul(XXH_xorshift(Mul(XXH_xorshift(h64, 33), PRIME64_2), 29), PRIME64_3), 32)

\* the three steps of XXH64_finalize, on the pair <<h64, p>>
XXH64_PROCESS1(cfg, hp, m) ==
    << Mul(XXH_rotl64(Xor(hp[1], Mul(U64(ByteAt(m, hp[2])), PRIME64_5)), 11), PRIME64_1),
       hp[2] + 1 >>

XXH64_PROCESS4(cfg, hp, m, endian, align) ==
    << Add(Mul(XXH_rotl64(Xor(hp[1], Mul(Ext64(XXH_readLE32_align(cfg, m, hp[2], endian, align)),
                                         PRIME64_1)), 23), PRIME64_2), PRIME64_3),
       hp[2] + 4 >>

XXH64_PROCESS8(cfg, hp, m, endian, align) ==
    << Add(Mul(XXH_rotl64(Xor(hp[1], XXH64_round(U64(0), XXH_readLE64_align(cfg, m, hp[2],
                                                                           endian, align))),
                          27), PRIME64_1), PRIME64_4),
       hp[2] + 8 >>

\* a switch that stops after the 8-byte steps
RECURSIVE XXH64_switch_words(_)
XXH64_switch_words(n) ==
    IF n >= 8 THEN <<8>> \o XXH64_switch_words(n - 8) ELSE <<>>

\* a switch without the 4-byte step: 8-byte steps, then single bytes
RECURSIVE XXH64_switch_bytes(_)
XXH64_switch_bytes(n) ==
    IF n >= 8 THEN <<8>> \o XXH64_switch_bytes(n - 8) ELSE [i \in 1..n |-> 1]

\* the switch of XXH64_finalize: the steps run from case label n on, with
\* its fallthroughs; 8 is PROCESS8_64, 4 is PROCESS4_64, 1 is PROCESS1_64
RECURSIVE XXH64_switch(_)
XXH64_switch(n) ==
    CASE n \in {24, 16}     -> <<8>> \o XXH64_switch(n - 8)
      [] n = 8              -> <<8>>
      [] n \in {28, 20, 12} -> <<8>> \o XXH64_switch(n - 8)
      [] n = 4              -> <<4>>
      [] n \in {25, 17}     -> <<8>> \o XXH64_switch(n - 8)
      [] n = 9              -> <<8, 1>>
      [] n \in {29, 21, 13} -> <<8>> \o XXH64_switch(n - 8)
      [] n = 5              -> <<4, 1>>
      [] n \in {26, 18}     -> <<8>> \o XXH64_switch(n - 8)
      [] n = 10             -> <<8, 1, 1>>
      [] n \in {30, 22, 14} -> <<8>> \o XXH64_switch(n - 8)
      [] n = 6              -> <<4, 1, 1>>
      [] n \in {27, 19}     -> <<8>> \o XXH64_switch(n - 8)
      [] n = 11             -> <<8, 1, 1, 1>>
      [] n \in {31, 23, 15} -> <<8>> \o XXH64_switch(n - 8)
      [] n = 7              -> <<4>> \o XXH64_switch(3)
      [] n \in {3, 2, 1}    -> <<1>> \o XXH64_switch(n - 1)
      [] n = 0              -> <<>>

RECURSIVE XXH64_steps(_, _, _, _, _, _)
XXH64_steps(cfg, hp, m, steps, endian, align) ==
    IF Len(hp) # 2 \/ steps = <<>> THEN hp
    ELSE XXH64_steps(cfg, CASE Head(steps) = 8 -> XXH64_PROCESS8(cfg, hp, m, endian, align)
                            [] Head(steps) = 4 -> XXH64_PROCESS4(cfg, hp, m, endian, align)
                            [] Head(steps) = 1 -> XXH64_PROCESS1(cfg, hp, m),
                     m, Tail(steps), endian, align)

XXH64_finalize(cfg, h64, m, p, len, endian, align) ==
    XXH64_avalanche(XXH64_steps(cfg, <<h64, p>>, m, XXH64_switch(len % 32), endian, align)[1])

\* the four lanes v after one 32-byte stripe at p
XXH64_stripe(cfg, v, m, p, endian, align) ==
    SubSeq([i \in 1..4 |->
               XXH64_round(v[i], XXH_readLE64_align(cfg, m, p + 8 * (i - 1), endian, align))],
           1, 4)

\* a stripe loop that stops one stripe early at a length of whole stripes
RECURSIVE XXH64_loop_strict(_, _, _, _, _, _, _, _)
XXH64_loop_strict(cfg, v, m, p, limit, first, endian, align) ==
    IF Len(v) = 4 /\ (first \/ p < limit)
    THEN XXH64_loop_strict(cfg, XXH64_stripe(cfg, v, m, p, endian, align), m, p + 32, limit,
                           FALSE, endian, align)
    ELSE <<v, p>>

\* do { ... p += 32; } while (p <= limit), on the pair <<v, p>>; first is
\* set on entry, where the body runs unconditionally.  The aligned loop
\* dereferences inp[i], the other uses XXH_get64bits: both are
\* XXH_readLE64_align with the endian and align of the call
RECURSIVE XXH64_loop(_, _, _, _, _, _, _, _)
XXH64_loop(cfg, v, m, p, limit, first, endian, align) ==
    IF Len(v) = 4 /\ (first \/ p <= limit)
    THEN XXH64_loop(cfg, XXH64_stripe(cfg, v, m, p, endian, align), m, p + 32, limit, FALSE,
                    endian, align)
    ELSE <<v, p>>

XXH64_lanes(seed) ==
    << Add(Add(seed, PRIME64_1), PRIME64_2),
       Add(seed, PRIME64_2),
       Add(seed, U64(0)),
       Sub(seed, PRIME64_1) >>

\* h64 = XXH64_mergeRound(h64, v1); ... ; h64 = XXH64_mergeRound(h64, v4)
RECURSIVE XXH64_mergeRounds(_, _, _)
XXH64_mergeRounds(h64, v, i) ==
    IF Len(h64) # 4 \/ i > 4 THEN h64
    ELSE XXH64_mergeRounds(XXH64_mergeRound(h64, v[i]), v, i + 1)

\* h64 = XXH_rotl64(v1, 1) + XXH_rotl64(v2, 7) + XXH_rotl64(v3, 12) + XXH_rotl64(v4, 18),
\* then the four XXH64_mergeRound
XXH64_merge(v) ==
    XXH64_mergeRounds(Add(Add(Add(XXH_rotl64(v[1], 1), XXH_rotl64(v[2], 7)),
                              XXH_rotl64(v[3], 12)),
                          XXH_rotl64(v[4], 18)),
                      v, 1)

\* h64 and p where the stripes end, as the pair <<h64, p>>
XXH64_merged(lp) == <<XXH64_merge(lp[1]), lp[2]>>

\* h64 += (U64)len; return XXH64_finalize(h64, p, len, endian, align)
XXH64_finish(cfg, hp, input, len, endian, align) ==
    XXH64_finalize(cfg, Add(hp[1], U64(len)), input, hp[2], len, endian, align)

\* XXH64_endian_align.  With XXH_VECTORIZE and XXH_VECTORIZE_XXH64
\* (cfg.vectorize) and endian XXH_littleEndian the stripes are taken by the
\* two-vector loop: it mixes the same four words into the same four lanes
\* by native loads, and runs do { ... } while (p < limit) with limit =
\* bEnd - 32, which is the scalar loop's p <= limit with a limit one lower
XXH64_endian_align(cfg, input, len, seed, endian, align) ==
    XXH64_finish(cfg,
                 IF NullAsEmpty(cfg, input, len) >= 32
                 THEN XXH64_merged(XXH64_loop(cfg, XXH64_lanes(seed), input, 0,
                                              IF cfg.vectorize /\ endian = XXH_littleEndian
                                              THEN NullAsEmpty(cfg, input, len) - 33
                                              ELSE NullAsEmpty(cfg, input, len) - 32,
                                              TRUE, endian, align))
                 ELSE <<Add(seed, PRIME64_5), 0>>,
                 input, NullAsEmpty(cfg, input, len), endian, align)

XXH64(cfg, input, len, seed) ==
    XXH64_endian_align(cfg, input, len, seed, Endian(cfg), XXH_alignOf(cfg, input, 7))

(***************************************************************************)
(* Streaming.  A state is the record of the fields of the state struct     *)
(* that the code reads and writes: the length counters, the lanes (v1..v4  *)
(* as v[1..4]), the buffer (mem32 / mem64, here mem, as its bytes), memsize *)
(* and reserved.  An update returns the new state and the error code.      *)
(***************************************************************************)
XXH_OK == "XXH_OK"
XXH_ERROR == "XXH_ERROR"

\* an update that reports success for a null input in every build
XXH_nullInput_ok(cfg) == XXH_OK

\* if (input==NULL) return XXH_OK / XXH_ERROR, by XXH_ACCEPT_NULL_INPUT_POINTER:
\* what an update returns for a null input
XXH_nullInput(cfg) == IF cfg.acceptNull THEN XXH_OK ELSE XXH_ERROR

\* 1 if c, else 0: the value of a C comparison
B01(c) == IF c THEN 1 ELSE 0

\* n bytes of region m from offset o on (a memcpy source)
RECURSIVE Fetch(_, _, _)
Fetch(m, o, n) ==
    IF n <= 0 THEN <<>>
    ELSE IF o >= 0 /\ o + n <= Len(m.bytes) THEN SubSeq(m.bytes, o + 1, o + n)
    ELSE <<ByteAt(m, o)>> \o Fetch(m, o + 1, n - 1)

\* a copy that moves one byte when asked for none
XXH_memcpy_atLeast1(dst, doff, m, soff, n) ==
    IF n <= 0 THEN SubSeq(dst, 1, doff) \o Fetch(m, soff, 1) \o SubSeq(dst, doff + 2, Len(dst))
    ELSE SubSeq(dst, 1, doff) \o Fetch(m, soff, n) \o SubSeq(dst, doff + n + 1, Len(dst))

\* memcpy(dst + doff, src + soff, n) on the byte sequence dst
XXH_memcpy(dst, doff, m, soff, n) ==
    IF n <= 0 THEN dst
    ELSE SubSeq(dst, 1, doff) \o Fetch(m, soff, n) \o SubSeq(dst, doff + n + 1, Len(dst))

\* memset(.., 0, n), n <= 32
Zeros(n) ==
    SubSeq(<<0, 0, 0, 0, 0, 0, 0, 0, 0, 0, 0, 0, 0, 0, 0, 0,
             0, 0, 0, 0, 0, 0, 0, 0, 0, 0, 0, 0, 0, 0, 0, 0>>, 1, n)

\* the buffer of a state as a region; the struct is aligned for its words
MemOf(state) == Region(4096, state.mem, 0)

\* memcpy(dstState, srcState, sizeof *dstState): all four copyState
XXH32_copyState(dstState, srcState) == srcState

\* a copy that takes the counters and lanes but leaves the buffer behind
XXH64_copyState_shallow(dstState, srcState) == [srcState EXCEPT !.mem = dstState.mem]

XXH64_copyState(dstState, srcState) == srcState
XXH32a_copyState(dstState, srcState) == srcState
XXH64a_copyState(dstState, srcState) == srcState

(***************************************************************************)
(* XXH32 streaming.  An update is modelled in the order of its code: the   *)
(* counters, then either the fill of the buffer, or the flush of the       *)
(* buffer, the block loop and the tail.  From the flush on, the steps work *)
(* on the pair <<state, p>> of the state and the read position in input.   *)
(***************************************************************************)
\* a reset that rewrites the lanes and the length and keeps the buffer
XXH32_reset_lanesOnly(statePtr, seed) ==
    [statePtr EXCEPT !.total_len_32 = U32(0),
                     !.large_len = 0,
                     !.v = XXH32_lanes(seed)]

XXH32_reset(statePtr, seed) ==
    [statePtr EXCEPT !.total_len_32 = U32(0),
                     !.large_len = 0,
                     !.v = XXH32_lanes(seed),
                     !.mem = Zeros(16),
                     !.memsize = 0]

\* XXH_FORCE_ALIGN_CHECK && ((size_t)p & mask)==0 && endian==XXH_littleEndian:
\* the aligned loop of an update dereferences p, which is the aligned
\* little-endian read; the other loop is XXH_readLE32 / XXH_readLE64
XXH_alignAt(cfg, addr, mask, endian) ==
    IF cfg.alignCheck /\ addr % (mask + 1) = 0 /\ endian = XXH_littleEndian
    THEN XXH_aligned ELSE XXH_unaligned

\* a count whose flag tells of the last call alone
XXH32_update_count_assign(state, len, block) ==
    [state EXCEPT !.total_len_32 = Add(@, U32(len)),
                  !.large_len = B01(len >= block)]

\* a count whose flag is the test of the running total alone
XXH32_update_count_total(state, len, block) ==
    [state EXCEPT !.total_len_32 = Add(@, U32(len)),
                  !.large_len = B01(GeSmall(Add(state.total_len_32, U32(len)), block))]

\* state->total_len_32 += len; state->large_len |= (len>=block) | (total>=block)
XXH32_update_count(state, len, block) ==
    [state EXCEPT !.total_len_32 = Add(@, U32(len)),
                  !.large_len = Or16(@, Or16(B01(len >= block),
                                             B01(GeSmall(Add(state.total_len_32, U32(len)),
                                                         block))))]

\* a fill that writes the input over the start of the buffer
XXH_update_fill_front(state, input, len) ==
    [state EXCEPT !.mem = XXH_memcpy(@, 0, input, 0, len),
                  !.memsize = @ + len]

\* fill in tmp buffer
XXH_update_fill(state, input, len) ==
    [state EXCEPT !.mem = XXH_memcpy(@, state.memsize, input, 0, len),
                  !.memsize = @ + len]

\* a buffer completed over its first bytes
XXH_update_complete_front(state, input, block) ==
    [state EXCEPT !.mem = XXH_memcpy(@, 0, input, 0, block - state.memsize)]

\* the buffer completed from input
XXH_update_complete(state, input, block) ==
    [state EXCEPT !.mem = XXH_memcpy(@, state.memsize, input, 0, block - state.memsize)]

\* a tail that counts the whole input as pending
XXH_update_tail_all(sp, input, len) == [sp[1] EXCEPT !.memsize = len]

\* if (p < bEnd) { memcpy(state->mem, p, bEnd-p); state->memsize = bEnd-p; }
XXH_update_tail(sp, input, len) ==
    IF sp[2] < len
    THEN [sp[1] EXCEPT !.mem = XXH_memcpy(@, 0, input, sp[2], len - sp[2]),
                       !.memsize = len - sp[2]]
    ELSE sp[1]

\* state->v = v after the block loop that ended at p
XXH_update_store(state, lp) == <<[state EXCEPT !.v = lp[1]], lp[2]>>

\* the block loop with while (p < limit): it leaves a last whole stripe to
\* the buffer
RECURSIVE XXH32_update_loop_strict(_, _, _, _, _, _, _, _)
XXH32_update_loop_strict(cfg, v, m, p, limit, first, endian, align) ==
    IF Len(v) = 4 /\ (first \/ p < limit)
    THEN XXH32_update_loop_strict(cfg, XXH32_stripe(cfg, v, m, p, endian, align), m, p + 16,
                                  limit, FALSE, endian, align)
    ELSE <<v, p>>

\* do { ... p += 16; } while (p <= limit) of XXH32_update_endian
RECURSIVE XXH32_update_loop(_, _, _, _, _, _, _, _)
XXH32_update_loop(cfg, v, m, p, limit, first, endian, align) ==
    IF Len(v) = 4 /\ (first \/ p <= limit)
    THEN XXH32_update_loop(cfg, XXH32_stripe(cfg, v, m, p, endian, align), m, p + 16, limit,
                           FALSE, endian, align)
    ELSE <<v, p>>

\* if (state->memsize) { ... p += 16-state->memsize; } state->memsize = 0
XXH32_update_flush(cfg, state, input, endian) ==
    IF state.memsize # 0
    THEN << [XXH_update_complete(state, input, 16)
                EXCEPT !.v = XXH32_stripe(cfg, @, MemOf(XXH_update_complete(state, input, 16)),
                                          0, endian, XXH_unaligned),
                       !.memsize = 0],
            16 - state.memsize >>
    ELSE <<[state EXCEPT !.memsize = 0], 0>>

\* if (p <= bEnd-16) { ... }
XXH32_update_blocks(cfg, sp, input, len, endian) ==
    IF sp[2] <= len - 16
    THEN XXH_update_store(sp[1],
                          XXH32_update_loop(cfg, sp[1].v, input, sp[2], len - 16, TRUE, endian,
                                            XXH_alignAt(cfg, input.addr + sp[2], 3, endian)))
    ELSE sp

XXH32_update_endian(cfg, state, input, len, endian) ==
    IF input.addr = 0
    THEN [state |-> state, ret |-> XXH_nullInput(cfg)]
    ELSE [state |->
              IF state.memsize + len < 16
              THEN XXH_update_fill(XXH32_update_count(state, len, 16), input, len)
              ELSE XXH_update_tail(
                       XXH32_update_blocks(
                           cfg,
                           XXH32_update_flush(cfg, XXH32_update_count(state, len, 16), input,
                                              endian),
                           input, len, endian),
                       input, len),
          ret |-> XXH_OK]

XXH32_update(cfg, state, input, len) == XXH32_update_endian(cfg, state, input, len, Endian(cfg))

\* a digest that combines the lanes whatever the flag says
XXH32_digest_endian_lanes(cfg, state, endian) ==
    XXH32_finalize(cfg, Add(XXH32_merge(state.v), state.total_len_32),
                   MemOf(state), 0, state.memsize % 16, endian, XXH_aligned)

\* h32 = large_len ? merge of the lanes : v3 /* == seed */ + PRIME32_5
XXH32_digest_endian(cfg, state, endian) ==
    XXH32_finalize(cfg,
                   Add(IF state.large_len # 0 THEN XXH32_merge(state.v)
                       ELSE Add(state.v[3], PRIME32_5),
                       state.total_len_32),
                   MemOf(state), 0, state.memsize % 16, endian, XXH_aligned)

XXH32_digest(cfg, state) == XXH32_digest_endian(cfg, state, Endian(cfg))

(***************************************************************************)
(* XXH64 streaming                                                         *)
(***************************************************************************)
XXH64_reset(statePtr, seed) ==
    [statePtr EXCEPT !.total_len = U64(0),
                     !.v = XXH64_lanes(seed),
                     !.mem = Zeros(32),
                     !.memsize = 0]

\* the block loop with while (p < limit)
RECURSIVE XXH64_update_loop_strict(_, _, _, _, _, _, _, _)
XXH64_update_loop_strict(cfg, v, m, p, limit, first, endian, align) ==
    IF Len(v) = 4 /\ (first \/ p < limit)
    THEN XXH64_update_loop_strict(cfg, XXH64_stripe(cfg, v, m, p, endian, align), m, p + 32,
                                  limit, FALSE, endian, align)
    ELSE <<v, p>>

\* do { ... p += 32; } while (p <= limit) of XXH64_update_endian
RECURSIVE XXH64_update_loop(_, _, _, _, _, _, _, _)
XXH64_update_loop(cfg, v, m, p, limit, first, endian, align) ==
    IF Len(v) = 4 /\ (first \/ p <= limit)
    THEN XXH64_update_loop(cfg, XXH64_stripe(cfg, v, m, p, endian, align), m, p + 32, limit,
                           FALSE, endian, align)
    ELSE <<v, p>>

\* if (state->memsize) { ... p += 32-state->memsize; state->memsize = 0; }
XXH64_update_flush(cfg, state, input, endian) ==
    IF state.memsize # 0
    THEN << [XXH_update_complete(state, input, 32)
                EXCEPT !.v = XXH64_stripe(cfg, @, MemOf(XXH_update_complete(state, input, 32)),
                                          0, endian, XXH_unaligned),
                       !.memsize = 0],
            32 - state.memsize >>
    ELSE <<state, 0>>

\* if (p+32 <= bEnd) { ... }
XXH64_update_blocks(cfg, sp, input, len, endian) ==
    IF sp[2] + 32 <= len
    THEN XXH_update_store(sp[1],
                          XXH64_update_loop(cfg, sp[1].v, input, sp[2], len - 32, TRUE, endian,
                                            XXH_alignAt(cfg, input.addr + sp[2], 7, endian)))
    ELSE sp

\* state->total_len += len, then the fill, or the flush, the blocks and the tail
XXH64_update_endian(cfg, state, input, len, endian) ==
    IF input.addr = 0
    THEN [state |-> state, ret |-> XXH_nullInput(cfg)]
    ELSE [state |->
              IF state.memsize + len < 32
              THEN XXH_update_fill([state EXCEPT !.total_len = Add(@, U64(len))], input, len)
              ELSE XXH_update_tail(
                       XXH64_update_blocks(
                           cfg,
                           XXH64_update_flush(cfg,
                                              [state EXCEPT !.total_len = Add(@, U64(len))],
                                              input, endian),
                           input, len, endian),
                       input, len),
          ret |-> XXH_OK]

XXH64_update(cfg, state, input, len) == XXH64_update_endian(cfg, state, input, len, Endian(cfg))

\* h64 = total_len >= 32 ? merge of the lanes : v3 + PRIME64_5
XXH64_digest_endian(cfg, state, endian) ==
    XXH64_finalize(cfg,
                   Add(IF GeSmall(state.total_len, 32) THEN XXH64_merge(state.v)
                       ELSE Add(state.v[3], PRIME64_5),
                       state.total_len),
                   MemOf(state), 0, state.total_len[1], endian, XXH_aligned)

XXH64_digest(cfg, state) == XXH64_digest_endian(cfg, state, Endian(cfg))

(***************************************************************************)
(* The dual-lane families XXH32a and XXH64a (scalar build).  The lanes     *)
(* U32 v[2][4] are the pair <<v[0], v[1]>> of two groups of four words.    *)
(***************************************************************************)
\* the eight lanes after one 32-byte stripe at p: v[0] takes the first 16
\* bytes, v[1] the next 16
XXH32a_stripe(cfg, v, m, p, endian, align) ==
    SubSeq([g \in 1..2 |-> XXH32_stripe(cfg, v[g], m, p + 16 * (g - 1), endian, align)], 1, 2)

\* do { ... p += 32; } while (p < limit) of XXH32a_XXH64a_endian_align
RECURSIVE XXH32a_loop(_, _, _, _, _, _, _, _)
XXH32a_loop(cfg, v, m, p, limit, first, endian, align) ==
    IF Len(v) = 2 /\ Len(v[1]) = 4 /\ Len(v[2]) = 4 /\ (first \/ p < limit)
    THEN XXH32a_loop(cfg, XXH32a_stripe(cfg, v, m, p, endian, align), m, p + 32, limit, FALSE,
                     endian, align)
    ELSE <<v, p>>

\* returns the pair <<state (the lanes), p>>.  The aligned loop dereferences
\* inp[i] when endian is XXH_littleEndian and align is XXH_aligned, the other
\* uses XXH_get32bits: both are XXH_readLE32_align with this endian and align
XXH32a_XXH64a_endian_align(cfg, v, m, p, len, endian, align) ==
    IF len >= 32
    THEN XXH32a_loop(cfg, v, m, p, p + len - 31, TRUE, endian, align)
    ELSE <<v, p>>

\* v[0][i] = XXH32_round(v[0][i], v[1][i])
XXH32a_fold(v) == SubSeq([i \in 1..4 |-> XXH32_round(v[1][i], v[2][i])], 1, 4)

\* ((size_t)input & 3) == 0 ? XXH_aligned : XXH_unaligned
XXH32a_alignOf(input) == IF input.addr % 4 = 0 THEN XXH_aligned ELSE XXH_unaligned

\* h32 and p where the stripes end, as the pair <<h32, p>>
XXH32a_merged(lp) == <<XXH32_merge(XXH32a_fold(lp[1])), lp[2]>>

\* h32 += (U32)len; return XXH32_finalize(h32, p, len&31, endian, align)
XXH32a_finish(cfg, hp, input, len, endian, align) ==
    XXH32_finalize(cfg, Add(hp[1], U32(len)), input, hp[2], len % 32, endian, align)

XXH32a(cfg, input, len, seed) ==
    XXH32a_finish(cfg,
                  IF NullAsEmpty(cfg, input, len) >= 32
                  THEN XXH32a_merged(XXH32a_XXH64a_endian_align(
                                         cfg, <<XXH32_lanes(seed), XXH32_lanes(seed)>>, input, 0,
                                         NullAsEmpty(cfg, input, len), Endian(cfg),
                                         XXH32a_alignOf(input)))
                  ELSE <<Add(seed, PRIME32_5), 0>>,
                  input, NullAsEmpty(cfg, input, len), Endian(cfg), XXH32a_alignOf(input))

XXH32a_reset(statePtr, seed) ==
    [statePtr EXCEPT !.total_len_32 = U32(0),
                     !.large_len = 0,
                     !.v = <<XXH32_lanes(seed), XXH32_lanes(seed)>>,
                     !.mem = Zeros(32),
                     !.memsize = 0]

\* do { ... p += 32; } while (p <= limit) of XXH32a_XXH64a_update_endian
RECURSIVE XXH32a_update_loop(_, _, _, _, _, _, _, _)
XXH32a_update_loop(cfg, v, m, p, limit, first, endian, align) ==
    IF Len(v) = 2 /\ Len(v[1]) = 4 /\ Len(v[2]) = 4 /\ (first \/ p <= limit)
    THEN XXH32a_update_loop(cfg, XXH32a_stripe(cfg, v, m, p, endian, align), m, p + 32, limit,
                            FALSE, endian, align)
    ELSE <<v, p>>

\* if (state->memsize) { ... p += 32-state->memsize; state->memsize = 0; }
XXH32a_update_flush(cfg, state, input, endian) ==
    IF state.memsize # 0
    THEN << [XXH_update_complete(state, input, 32)
                EXCEPT !.v = XXH32a_stripe(cfg, @, MemOf(XXH_update_complete(state, input, 32)),
                                           0, endian, XXH_unaligned),
                       !.memsize = 0],
            32 - state.memsize >>
    ELSE <<state, 0>>

\* if (len >= 32) { limit = bEnd - 31; do { ... } while (p <= limit); }
XXH32a_update_blocks(cfg, sp, input, len, endian) ==
    IF len >= 32
    THEN XXH_update_store(sp[1],
                          XXH32a_update_loop(cfg, sp[1].v, input, sp[2], len - 31, TRUE, endian,
                                             XXH_alignAt(cfg, input.addr + sp[2], 3, endian)))
    ELSE sp

XXH32a_XXH64a_update_endian(cfg, state, input, len, endian) ==
    IF input.addr = 0
    THEN [state |-> state, ret |-> XXH_nullInput(cfg)]
    ELSE [state |->
              IF state.memsize + len < 32
              THEN XXH_update_fill(XXH32_update_count(state, len, 32), input, len)
              ELSE XXH_update_tail(
                       XXH32a_update_blocks(
                           cfg,
                           XXH32a_update_flush(cfg, XXH32_update_count(state, len, 32), input,
                                               endian),
                           input, len, endian),
                       input, len),
          ret |-> XXH_OK]

XXH32a_update(cfg, state, input, len) ==
    XXH32a_XXH64a_update_endian(cfg, state, input, len, Endian(cfg))

XXH32a_digest_endian(cfg, state, endian) ==
    XXH32_finalize(cfg,
                   Add(IF state.large_len # 0 THEN XXH32_merge(XXH32a_fold(state.v))
                       ELSE Add(state.v[1][3], PRIME32_5),
                       state.total_len_32),
                   MemOf(state), 0, state.memsize, endian, XXH_aligned)

XXH32a_digest(cfg, state) == XXH32a_digest_endian(cfg, state, Endian(cfg))

\* v[0][i] | ((U64)v[1][i] << 32)
Join64(lo, hi) == Or(Ext64(lo), Shl(Ext64(hi), 32))

\* the four 64-bit lanes v64 of the eight 32-bit lanes
XXH64a_join(v) == SubSeq([i \in 1..4 |-> Join64(v[1][i], v[2][i])], 1, 4)

\* both groups seeded from the low half of the seed
XXH64a_lanes_low(seed) ==
    <<XXH32_lanes(Trunc32(seed)), XXH32_lanes(Trunc32(seed))>>

\* seeds[0] = (U32)(seed & 0xFFFFFFFF), seeds[1] = (U32)(seed >> 32), and
\* the lanes they give
XXH64a_lanes(seed) ==
    <<XXH32_lanes(Trunc32(seed)), XXH32_lanes(Trunc32(Shr(seed, 32)))>>

\* h64 and p where the stripes end, as the pair <<h64, p>>
XXH64a_merged(lp) == <<XXH64_merge(XXH64a_join(lp[1])), lp[2]>>

\* h64 += (U32)len; return XXH64_finalize(h64, p, len&31, endian, align)
XXH64a_finish(cfg, hp, input, len, endian, align) ==
    XXH64_finalize(cfg, Add(hp[1], Ext64(U32(len))), input, hp[2], len % 32, endian, align)

XXH64a(cfg, input, len, seed) ==
    XXH64a_finish(cfg,
                  IF NullAsEmpty(cfg, input, len) >= 32
                  THEN XXH64a_merged(XXH32a_XXH64a_endian_align(
                                         cfg, XXH64a_lanes(seed), input, 0,
                                         NullAsEmpty(cfg, input, len), Endian(cfg),
                                         XXH32a_alignOf(input)))
                  ELSE <<Add(Join64(Trunc32(seed), Trunc32(Shr(seed, 32))), PRIME64_5), 0>>,
                  input, NullAsEmpty(cfg, input, len), Endian(cfg), XXH32a_alignOf(input))

XXH64a_reset(statePtr, seed) ==
    [statePtr EXCEPT !.total_len_32 = U32(0),
                     !.large_len = 0,
                     !.v = XXH64a_lanes(seed),
                     !.mem = Zeros(32),
                     !.memsize = 0]

\* XXH32a_update((XXH32a_state_t*)state_in, input, len)
XXH64a_update(cfg, state, input, len) == XXH32a_update(cfg, state, input, len)

\* the bytes finalized are state->mem32 if it is 8-aligned, else its copy
\* U64 mem[32]
XXH64a_digest_endian(cfg, state, endian) ==
    XXH64_finalize(cfg,
                   Add(IF state.large_len # 0 THEN XXH64_merge(XXH64a_join(state.v))
                       ELSE Add(Join64(state.v[1][3], state.v[2][3]), PRIME64_5),
                       Ext64(state.total_len_32)),
                   IF MemOf(state).addr % 8 = 0 THEN MemOf(state)
                   ELSE Region(8192, XXH_memcpy(Zeros(32), 0, MemOf(state), 0, 32), 0),
                   0, state.memsize, endian, XXH_aligned)

XXH64a_digest(cfg, state) == XXH64a_digest_endian(cfg, state, Endian(cfg))

(***************************************************************************)
(* Canonical representation                                                *)
(***************************************************************************)
\* memcpy(dst, &hash, sizeof(hash)): the bytes of a word as the host
\* stores it
NativeStore(cfg, w) ==
    SubSeq([i \in 1..(2 * Len(w)) |->
               Bytes(w)[IF cfg.cpuLE THEN i ELSE 2 * Len(w) + 1 - i]],
           1, 2 * Len(w))

\* a canonical form that is the host's own byte order
XXH32_canonicalFromHash_native(cfg, hash) == NativeStore(cfg, hash)

XXH32_canonicalFromHash(cfg, hash) ==
    NativeStore(cfg, IF cfg.cpuLE THEN XXH_swap32(hash) ELSE hash)

XXH32_hashFromCanonical(cfg, src) == XXH_readBE32(cfg, src, 0)

\* a 64-bit canonical form that is the host's own byte order
XXH64_canonicalFromHash_native(cfg, hash) == NativeStore(cfg, hash)

XXH64_canonicalFromHash(cfg, hash) ==
    NativeStore(cfg, IF cfg.cpuLE THEN XXH_swap64(hash) ELSE hash)

XXH64_hashFromCanonical(cfg, src) == XXH_readBE64(cfg, src, 0)

(***************************************************************************)
(* The four families behind one interface.                                 *)
(***************************************************************************)
Families == {"XXH32", "XXH64", "XXH32a", "XXH64a"}

\* the bytes of one stripe: 16 for XXH32, 32 for the others
BlockSize(f) == IF f = "XXH32" THEN 16 ELSE 32

Hash(cfg, f, input, len, seed) ==
    CASE f = "XXH32"  -> XXH32(cfg, input, len, seed)
      [] f = "XXH64"  -> XXH64(cfg, input, len, seed)
      [] f = "XXH32a" -> XXH32a(cfg, input, len, seed)
      [] f = "XXH64a" -> XXH64a(cfg, input, len, seed)

Reset(f, statePtr, seed) ==
    CASE f = "XXH32"  -> XXH32_reset(statePtr, seed)
      [] f = "XXH64"  -> XXH64_reset(statePtr, seed)
      [] f = "XXH32a" -> XXH32a_reset(statePtr, seed)
      [] f = "XXH64a" -> XXH64a_reset(statePtr, seed)

Update(cfg, f, state, input, len) ==
    CASE f = "XXH32"  -> XXH32_update(cfg, state, input, len)
      [] f = "XXH64"  -> XXH64_update(cfg, state, input, len)
      [] f = "XXH32a" -> XXH32a_update(cfg, state, input, len)
      [] f = "XXH64a" -> XXH64a_update(cfg, state, input, len)

Digest(cfg, f, state) ==
    CASE f = "XXH32"  -> XXH32_digest(cfg, state)
      [] f = "XXH64"  -> XXH64_digest(cfg, state)
      [] f = "XXH32a" -> XXH32a_digest(cfg, state)
      [] f = "XXH64a" -> XXH64a_digest(cfg, state)

CopyState(f, dstState, srcState) ==
    CASE f = "XXH32"  -> XXH32_copyState(dstState, srcState)
      [] f = "XXH64"  -> XXH64_copyState(dstState, srcState)
      [] f = "XXH32a" -> XXH32a_copyState(dstState, srcState)
      [] f = "XXH64a" -> XXH64a_copyState(dstState, srcState)

\* XXH32_canonicalFromHash serves the 32-bit hashes, XXH64_canonicalFromHash
\* the 64-bit ones
CanonicalFromHash(cfg, hash) ==
    IF Len(hash) = 2 THEN XXH32_canonicalFromHash(cfg, hash)
    ELSE XXH64_canonicalFromHash(cfg, hash)

HashFromCanonical(cfg, src) ==
    IF Len(src.bytes) = 4 THEN XXH32_hashFromCanonical(cfg, src)
    ELSE XXH64_hashFromCanonical(cfg, src)

\* the length counter of a state, and its lanes as one sequence of words
TotalLen(f, st) == IF f = "XXH64" THEN st.total_len ELSE st.total_len_32

LargeLen(f, st) == IF f = "XXH64" THEN 0 ELSE st.large_len

(***************************************************************************)
(* The environment: what the caller passes.                                *)
(***************************************************************************)
\* bounds of the model: a stream holds at most MaxBlocks stripes and is
\* passed in at most MaxPieces updates, and SmallLen is a length below every
\* stripe size
MaxBlocks == 2
MaxPieces == 3
SmallLen == 5

\* the caller's data: byte i (from 0) of the source buffer
SourceByte(i) == (41 + i * 7 + 13 * (i \div 16)) % 256

\* len bytes of the caller's data from position pos on
Chunk(pos, len) == SubSeq([i \in 1..len |-> SourceByte(pos + i - 1)], 1, len)

\* lengths of one update, around the stripe size of the family
ChunkLens(f) ==
    LET b == BlockSize(f)
    IN  {0, 1, SmallLen, b - 1, b, b + 1, 2 * b - 1, 2 * b}

\* where the caller's buffers lie (one 16-byte aligned, one odd), and what
\* a load beyond the end of the buffer yields there
Caller0 == [addr |-> 64, past |-> 0]

Callers == {Caller0, [addr |-> 65, past |-> 255]}

\* an empty input behind a non-null pointer
Empty == Region(64, <<>>, 0)

\* the seeds: zero, and one with all bytes set apart
\* (0x9E3779B1, 0x0123456789ABCDEF)
Seed1(f) == IF f \in {"XXH32", "XXH32a"} THEN PRIME32_1 ELSE <<52719, 35243, 17767, 291>>

Seeds(f) == {IF f \in {"XXH32", "XXH32a"} THEN U32(0) ELSE U64(0), Seed1(f)}

\* the build configurations: host byte order and the tuning macros
DefaultBuild ==
    [cpuLE |-> TRUE, acceptNull |-> FALSE, forceNative |-> FALSE, alignCheck |-> TRUE,
     vectorize |-> FALSE, strictAlign |-> FALSE]

AcceptNullBuild == [DefaultBuild EXCEPT !.acceptNull = TRUE]

BigEndianBuild == [DefaultBuild EXCEPT !.cpuLE = FALSE]

\* the memory XXH32_createState hands out: nothing in it is initialised
Uninit(f) ==
    IF f = "XXH64"
    THEN [total_len |-> U64(77), v |-> <<U64(1), U64(2), U64(3), U64(4)>>,
          mem |-> Chunk(3, 32), memsize |-> 9, reserved |-> 7]
    ELSE IF f = "XXH32"
    THEN [total_len_32 |-> U32(77), large_len |-> 1, v |-> <<U32(1), U32(2), U32(3), U32(4)>>,
          mem |-> Chunk(3, 16), memsize |-> 9, reserved |-> 7]
    ELSE [total_len_32 |-> U32(77), large_len |-> 1,
          v |-> <<<<U32(1), U32(2), U32(3), U32(4)>>, <<U32(5), U32(6), U32(7), U32(8)>>>>,
          mem |-> Chunk(3, 32), memsize |-> 9, reserved |-> 7]

Slots == {1, 2}

(***************************************************************************)
(* The state machine: one caller driving the API of one family.            *)
(***************************************************************************)
VARIABLES
    cfg,        \* the build configuration
    family,     \* the family the caller uses
    live,       \* live[s]: state s has been initialised (reset or copied into)
    state,      \* state[s]: the streaming state s
    seed,       \* seed[s]: the seed of the last reset of s
    stream,     \* stream[s]: the bytes s accepted since its last reset
    pieces,     \* pieces[s]: the number of updates that passed them
    branch,     \* <<>>, or after a copyState the lengths each of the two
                \* states was updated with since
    op,         \* the last call
    ret,        \* the XXH_errorcode the last call returned, if any
    hash,       \* the hash value the caller holds from the last call, if any
    canonical   \* the caller's canonical buffer

vars == <<cfg, family, live, state, seed, stream, pieces, branch, op, ret, hash, canonical>>

Call(name, slot, len, null, sd) ==
    [name |-> name, slot |-> slot, len |-> len, null |-> null, seed |-> sd]

InitBuild(builds) ==
    /\ cfg \in builds
    /\ family \in Families
    /\ live = [s \in Slots |-> FALSE]
    /\ state = [s \in Slots |-> Uninit(family)]
    /\ seed = [s \in Slots |-> <<>>]
    /\ stream = [s \in Slots |-> <<>>]
    /\ pieces = [s \in Slots |-> 0]
    /\ branch = <<>>
    /\ op = Call("createState", 0, 0, FALSE, <<>>)
    /\ ret = "none"
    /\ hash = <<>>
    /\ canonical = <<>>

Init == InitBuild({DefaultBuild})

\* a reset whose lanes are one storage shared by all states
DoReset_shared(s, sd) ==
    /\ state' = [o \in Slots |-> Reset(family, state[o], sd)]
    /\ live' = [live EXCEPT ![s] = TRUE]
    /\ seed' = [seed EXCEPT ![s] = sd]
    /\ stream' = [stream EXCEPT ![s] = <<>>]
    /\ pieces' = [pieces EXCEPT ![s] = 0]
    /\ branch' = <<>>
    /\ op' = Call("reset", s, Len(stream[s]), FALSE, sd)
    /\ ret' = XXH_OK
    /\ hash' = <<>>
    /\ UNCHANGED <<cfg, family, canonical>>

\* XXH*_reset(&state[s], sd)
DoReset(s, sd) ==
    /\ state' = [state EXCEPT ![s] = Reset(family, state[s], sd)]
    /\ live' = [live EXCEPT ![s] = TRUE]
    /\ seed' = [seed EXCEPT ![s] = sd]
    /\ stream' = [stream EXCEPT ![s] = <<>>]
    /\ pieces' = [pieces EXCEPT ![s] = 0]
    /\ branch' = <<>>
    /\ op' = Call("reset", s, Len(stream[s]), FALSE, sd)
    /\ ret' = XXH_OK
    /\ hash' = <<>>
    /\ UNCHANGED <<cfg, family, canonical>>

\* XXH*_update(&state[s], input, len)
DoUpdate(s, input, len) ==
    /\ live[s]
    /\ Len(stream[s]) + Len(input.bytes) <= MaxBlocks * BlockSize(family)
    /\ input.addr # 0 => pieces[s] < MaxPieces
    /\ LET r == Update(cfg, family, state[s], input, len)
       IN  /\ r.ret \in {XXH_OK, XXH_ERROR}
           /\ state' = [state EXCEPT ![s] = r.state]
           /\ ret' = r.ret
           /\ stream' = [stream EXCEPT ![s] =
                            IF r.ret = XXH_OK /\ input.addr # 0 THEN @ \o input.bytes ELSE @]
           /\ pieces' = [pieces EXCEPT ![s] =
                            IF r.ret = XXH_OK /\ input.addr # 0 THEN @ + 1 ELSE @]
           /\ branch' = IF branch # <<>> /\ r.ret = XXH_OK /\ input.addr # 0
                        THEN [branch EXCEPT ![s] = Append(@, len)]
                        ELSE branch
    /\ op' = Call("update", s, len, input.addr = 0, <<>>)
    /\ hash' = <<>>
    /\ UNCHANGED <<cfg, family, live, seed, canonical>>

\* a digest that consumes the buffered bytes
DoDigest_consuming(s) ==
    /\ live[s]
    /\ hash' = Digest(cfg, family, state[s])
    /\ state' = [state EXCEPT ![s].memsize = 0]
    /\ op' = Call("digest", s, 0, FALSE, <<>>)
    /\ ret' = "none"
    /\ UNCHANGED <<cfg, family, live, seed, stream, pieces, branch, canonical>>

\* XXH*_digest(&state[s])
DoDigest(s) ==
    /\ live[s]
    /\ hash' = Digest(cfg, family, state[s])
    /\ op' = Call("digest", s, 0, FALSE, <<>>)
    /\ ret' = "none"
    /\ UNCHANGED <<cfg, family, live, state, seed, stream, pieces, branch, canonical>>

\* XXH*_copyState(&state[d], &state[s])
DoCopy(d, s) ==
    /\ live[s]
    /\ d # s
    /\ state' = [state EXCEPT ![d] = CopyState(family, state[d], state[s])]
    /\ live' = [live EXCEPT ![d] = TRUE]
    /\ seed' = [seed EXCEPT ![d] = seed[s]]
    /\ stream' = [stream EXCEPT ![d] = stream[s]]
    /\ pieces' = [pieces EXCEPT ![d] = pieces[s]]
    /\ branch' = <<<<>>, <<>>>>
    /\ op' = Call("copyState", d, 0, FALSE, <<>>)
    /\ ret' = "none"
    /\ hash' = <<>>
    /\ UNCHANGED <<cfg, family, canonical>>

\* the one-shot XXH32 / XXH64 / XXH32a / XXH64a (input, len, sd)
DoHash(input, len, sd) ==
    /\ hash' = Hash(cfg, family, input, len, sd)
    /\ op' = Call("hash", 0, len, input.addr = 0, sd)
    /\ ret' = "none"
    /\ UNCHANGED <<cfg, family, live, state, seed, stream, pieces, branch, canonical>>

\* XXH32_canonicalFromHash / XXH64_canonicalFromHash (&canonical, hash)
DoCanonicalFromHash ==
    /\ op.name \in {"hash", "digest"}
    /\ canonical' = CanonicalFromHash(cfg, hash)
    /\ op' = Call("canonicalFromHash", 0, 0, FALSE, <<>>)
    /\ ret' = "none"
    /\ UNCHANGED <<cfg, family, live, state, seed, stream, pieces, branch, hash>>

\* XXH32_hashFromCanonical / XXH64_hashFromCanonical (&canonical)
DoHashFromCanonical ==
    /\ op.name = "canonicalFromHash"
    /\ hash' = HashFromCanonical(cfg, Region(128, canonical, 0))
    /\ op' = Call("hashFromCanonical", 0, 0, FALSE, <<>>)
    /\ ret' = "none"
    /\ UNCHANGED <<cfg, family, live, state, seed, stream, pieces, branch, canonical>>

\* the caller's next piece of data for state s, len bytes from where the
\* stream of s stands
Input(s, c, len) == Region(c.addr, Chunk(Len(stream[s]), len), c.past)

\* one state, streamed into in pieces of all lengths, default build
Next ==
    \/ \E sd \in Seeds(family) : DoReset(1, sd)
    \/ \E len \in ChunkLens(family), c \in Callers : DoUpdate(1, Input(1, c, len), len)
    \/ \E len \in {0, SmallLen} : DoUpdate(1, NULL, len)
    \/ DoDigest(1)

Spec == Init /\ [][Next]_vars

\* two states, one copied into the other and both streamed into
CopyLens(f) == {SmallLen, BlockSize(f) + 1}

NextCopy ==
    \/ DoReset(1, Seed1(family))
    \/ \E s \in Slots, len \in CopyLens(family) : DoUpdate(s, Input(s, Caller0, len), len)
    \/ \E s \in Slots : DoDigest(s)
    \/ \E d \in Slots, s \in Slots : DoCopy(d, s)

SpecCopy == Init /\ [][NextCopy]_vars

\* a build with XXH_ACCEPT_NULL_INPUT_POINTER: null pointers with any length
\* go to the one-shot functions and to update
InitNull == InitBuild({AcceptNullBuild})

NullLens(f) == {0, SmallLen, BlockSize(f) + 1}

NextNull ==
    \/ \E sd \in Seeds(family) : DoReset(1, sd)
    \/ \E len \in CopyLens(family) : DoUpdate(1, Input(1, Caller0, len), len)
    \/ \E len \in NullLens(family) : DoUpdate(1, NULL, len)
    \/ DoDigest(1)
    \/ \E len \in NullLens(family), sd \in Seeds(family) : DoHash(NULL, len, sd)
    \/ \E len \in NullLens(family), sd \in Seeds(family) :
          DoHash(Region(Caller0.addr, Chunk(0, len), Caller0.past), len, sd)

SpecNull == InitNull /\ [][NextNull]_vars

\* hashes of a few inputs, written to and read from the canonical form, on a
\* little-endian and on a big-endian host
InitCanon == InitBuild({DefaultBuild, BigEndianBuild})

NextCanon ==
    \/ \E len \in NullLens(family), sd \in Seeds(family) :
          DoHash(Region(Caller0.addr, Chunk(0, len), Caller0.past), len, sd)
    \/ DoCanonicalFromHash
    \/ DoHashFromCanonical

SpecCanon == InitCanon /\ [][NextCanon]_vars

\* the builds and hosts the tuning macros and the hardware give: the default
\* one, XXH_FORCE_ALIGN_CHECK 0, a big-endian CPU, XXH_FORCE_NATIVE_FORMAT 1
\* on either CPU, XXH_VECTORIZE with XXH_VECTORIZE_XXH64, and a CPU whose
\* word loads ignore the low bits of the address
Builds ==
    {DefaultBuild,
     [DefaultBuild EXCEPT !.alignCheck = FALSE],
     BigEndianBuild,
     [DefaultBuild EXCEPT !.forceNative = TRUE],
     [BigEndianBuild EXCEPT !.forceNative = TRUE],
     [DefaultBuild EXCEPT !.vectorize = TRUE],
     [DefaultBuild EXCEPT !.strictAlign = TRUE]}

InitBuilds == InitBuild(Builds)

\* the caller's buffers at a 16-byte aligned address, at an odd one and at
\* one that is 4-byte but not 8-byte aligned
AlignCallers == {Caller0, [addr |-> 65, past |-> 0], [addr |-> 68, past |-> 0]}

\* lengths of a one-shot input: none, below a stripe, one 64-bit word, one
\* byte less than a stripe, one stripe, one byte less than two stripes, two
\* stripes
BuildLens(f) ==
    {0, SmallLen, 8, BlockSize(f) - 1, BlockSize(f), 2 * BlockSize(f) - 1, 2 * BlockSize(f)}

\* the one-shot functions take no state: they are called before the stream
\* is opened
NextBuilds ==
    \/ \E sd \in Seeds(family) : DoReset(1, sd)
    \/ \E len \in CopyLens(family), c \in AlignCallers : DoUpdate(1, Input(1, c, len), len)
    \/ DoDigest(1)
    \/ \E len \in BuildLens(family), sd \in Seeds(family), c \in AlignCallers :
          ~live[1] /\ DoHash(Region(c.addr, Chunk(0, len), c.past), len, sd)

SpecBuilds == InitBuilds /\ [][NextBuilds]_vars

\* one state that has already taken in two updates of HugeLen bytes each,
\* 2^32 - 32 bytes in all, then streamed into in pieces of all lengths.
\* HugeLen is a whole number of 16-byte stripes and twice HugeLen a whole
\* number of 32-byte stripes, so the buffer is empty; each lane is a
\* bijection of its own input word in every stripe, so the lanes after the
\* last stripe can be any values, here those of reset. stream[1] holds the
\* bytes accepted after these.
HugeLen == 16 * 134217727

InitWrap ==
    /\ cfg = DefaultBuild
    /\ family \in Families
    /\ live = [s \in Slots |-> s = 1]
    /\ \E sd \in Seeds(family) :
          /\ seed = [s \in Slots |-> IF s = 1 THEN sd ELSE <<>>]
          /\ state = [s \in Slots |->
                         IF s # 1 THEN Uninit(family)
                         ELSE IF family = "XXH64"
                         THEN [Reset(family, Uninit(family), sd) EXCEPT
                                  !.total_len = Add(Add(@, U64(HugeLen)), U64(HugeLen))]
                         ELSE XXH32_update_count(
                                  XXH32_update_count(Reset(family, Uninit(family), sd),
                                                     HugeLen, BlockSize(family)),
                                  HugeLen, BlockSize(family))]
    /\ stream = [s \in Slots |-> <<>>]
    /\ pieces = [s \in Slots |-> 0]
    /\ branch = <<>>
    /\ op = Call("update", 1, HugeLen, FALSE, <<>>)
    /\ ret = XXH_OK
    /\ hash = <<>>
    /\ canonical = <<>>

NextWrap ==
    \/ \E len \in ChunkLens(family), c \in Callers : DoUpdate(1, Input(1, c, len), len)
    \/ DoDigest(1)

SpecWrap == InitWrap /\ [][NextWrap]_vars

(***************************************************************************)
(* Properties                                                              *)
(***************************************************************************)
\* the one-shot hash of the bytes streamed into state s so far, under the
\* seed of its last reset, read from the buffer of caller c
OneShot(s, c) == Hash(cfg, family, Region(c.addr, stream[s], c.past), Len(stream[s]), seed[s])

\* C1: XXH32 streaming equals one-shot. Whatever consecutive pieces a byte
\* sequence is fed in after XXH32_reset(S) -- any number of them, of any
\* sizes, empty ones behind a non-null pointer included -- XXH32_digest
\* returns what XXH32 returns for the whole sequence and the seed S.
XXH32_StreamingEqualsOneShot ==
    family = "XXH32" =>
        \A s \in Slots : live[s] =>
            /\ \A c \in Callers : XXH32_digest(cfg, state[s]) = OneShot(s, c)
            /\ op.name = "digest" /\ op.slot = s => hash = OneShot(s, Caller0)

XXH32_StreamedInPieces ==
    /\ family = "XXH32"
    /\ op.name = "update" /\ ~op.null /\ op.len = 0 /\ ret = XXH_OK
    /\ pieces[1] = MaxPieces
    /\ Len(stream[1]) > BlockSize(family)
    /\ state[1].memsize > 0

\* C2: XXH64 streaming equals one-shot. Whatever consecutive pieces a byte
\* sequence is fed in after XXH64_reset(S), one piece or several,
\* XXH64_digest returns what XXH64 returns for the whole sequence and the
\* seed S.
XXH64_StreamingEqualsOneShot ==
    family = "XXH64" =>
        \A s \in Slots : live[s] =>
            /\ \A c \in Callers : XXH64_digest(cfg, state[s]) = OneShot(s, c)
            /\ op.name = "digest" /\ op.slot = s => hash = OneShot(s, Caller0)

XXH64_StreamedInPieces ==
    /\ family = "XXH64"
    /\ op.name = "digest" /\ hash = OneShot(1, Caller0)
    /\ pieces[1] = MaxPieces
    /\ Len(stream[1]) > BlockSize(family)
    /\ state[1].memsize > 0

\* C3: dual-lane streaming equals dual-lane one-shot. For XXH32a and for
\* XXH64a, reset(S); update(B[0:k]); update(B[k:]); digest returns the
\* one-shot hash of B with the seed S at every split point k, a single
\* update of the whole of B included.
DualLane_StreamingEqualsOneShot ==
    family \in {"XXH32a", "XXH64a"} =>
        \A s \in Slots : live[s] /\ pieces[s] <= 2 =>
            Digest(cfg, family, state[s]) = OneShot(s, Caller0)

\* C4: a digest is a pure read and is not terminal. In all four families a
\* digest leaves every field of the state as it was, it returns what a
\* digest of the state it leaves returns, and a digest straight after a
\* digest of the same state returns the same value.
Digest_PureRead ==
    [][op'.name = "digest" =>
          /\ state' = state
          /\ hash' = Digest(cfg, family, state'[op'.slot])
          /\ (op.name = "digest" /\ op.slot = op'.slot => hash' = hash)]_vars

Digest_MidStream ==
    /\ family = "XXH32a"
    /\ op.name = "digest" /\ hash = XXH32a_digest(cfg, state[1])
    /\ pieces[1] = 2
    /\ state[1].memsize > 0

\* C5: copy independence, in all four families. copyState(dst, src) makes
\* dst value-identical to src and leaves src alone, so their digests are
\* equal; whatever is then done to one of the two states leaves the other,
\* and so its digest, unchanged; and as long as both have been given the
\* same updates since the copy they stay identical and digest equally.
CopyState_Independent ==
    [][/\ op'.name = "copyState" =>
            /\ state'[op'.slot] = state[3 - op'.slot]
            /\ state'[3 - op'.slot] = state[3 - op'.slot]
            /\ Digest(cfg, family, state'[1]) = Digest(cfg, family, state'[2])
       /\ op'.name \in {"reset", "update", "digest"} =>
            /\ state'[3 - op'.slot] = state[3 - op'.slot]
            /\ live[3 - op'.slot] =>
                  Digest(cfg, family, state'[3 - op'.slot]) = Digest(cfg, family, state[3 - op'.slot])
       /\ (branch' # <<>> /\ branch'[1] = branch'[2]) =>
            /\ state'[1] = state'[2]
            /\ Digest(cfg, family, state'[1]) = Digest(cfg, family, state'[2])]_vars

CopyState_Branched ==
    /\ family = "XXH64"
    /\ branch # <<>>
    /\ branch[1] = <<BlockSize(family) + 1>> /\ branch[2] = <<SmallLen, SmallLen>>
    /\ state[1] # state[2]
    /\ op.name = "digest" /\ op.slot = 2

\* sd + pa + pb, sd + pb, sd, sd - pa in the width of the seed sd
SeededLanes(sd, pa, pb) == <<Add(Add(sd, pa), pb), Add(sd, pb), sd, Sub(sd, pa)>>

\* C6: reset discards all history. After reset(state, S), whatever was
\* streamed before, the pending count is 0, the total length is 0, the
\* flag is clear and the lanes are S+P1+P2, S+P2, S, S-P1 (for XXH64a the
\* low half of S in group 0 and the high half in group 1); the state is the
\* one a reset of a fresh state gives, and its digest is the one-shot hash
\* of the empty input with seed S.
Reset_DiscardsHistory ==
    op.name = "reset" =>
        LET st == state[op.slot]
            S  == op.seed
        IN  /\ st.memsize = 0
            /\ TotalLen(family, st) = (IF family = "XXH64" THEN <<0, 0, 0, 0>> ELSE <<0, 0>>)
            /\ LargeLen(family, st) = 0
            /\ st.v = CASE family = "XXH32"  -> SeededLanes(S, PRIME32_1, PRIME32_2)
                         [] family = "XXH64"  -> SeededLanes(S, PRIME64_1, PRIME64_2)
                         [] family = "XXH32a" -> << SeededLanes(S, PRIME32_1, PRIME32_2),
                                                    SeededLanes(S, PRIME32_1, PRIME32_2) >>
                         [] family = "XXH64a" -> << SeededLanes(<<S[1], S[2]>>, PRIME32_1, PRIME32_2),
                                                    SeededLanes(<<S[3], S[4]>>, PRIME32_1, PRIME32_2) >>
            /\ st = Reset(family, Uninit(family), S)
            /\ Digest(cfg, family, st) = Hash(cfg, family, Empty, 0, S)

Reset_AfterStreaming ==
    /\ family = "XXH64a"
    /\ op.name = "reset" /\ op.len > BlockSize(family) /\ op.seed = Seed1(family)
    /\ state[1].v[1] # state[1].v[2]

\* C7: a null input is rejected atomically. In the default build an update
\* with a null pointer, whatever its length, returns XXH_ERROR and leaves
\* every field of the state, and so the digest, as it was; every other
\* update returns XXH_OK.
NullInput_Rejected ==
    [][~cfg.acceptNull /\ op'.name = "update" =>
          IF op'.null
          THEN /\ ret' = XXH_ERROR
               /\ state' = state
               /\ Digest(cfg, family, state'[op'.slot]) = Digest(cfg, family, state[op'.slot])
          ELSE ret' = XXH_OK]_vars

NullInput_MidStream ==
    /\ ~cfg.acceptNull
    /\ op.name = "update" /\ op.null /\ op.len = SmallLen /\ ret = XXH_ERROR
    /\ pieces[1] > 0
    /\ state[1].memsize > 0

\* C8: in a build with XXH_ACCEPT_NULL_INPUT_POINTER a null pointer is an
\* input of length zero whatever length comes with it: a one-shot function
\* returns the hash of the empty input for the seed, and an update returns
\* XXH_OK and leaves the state as it was.
NullInput_AsEmpty ==
    [][cfg.acceptNull /\ op'.null =>
          /\ op'.name = "hash" => hash' = Hash(cfg, family, Empty, 0, op'.seed)
          /\ op'.name = "update" => ret' = XXH_OK /\ state' = state]_vars

NullInput_WithLength ==
    /\ cfg.acceptNull
    /\ family = "XXH64"
    /\ op.name = "hash" /\ op.null /\ op.len > BlockSize(family) /\ op.seed = Seed1(family)
    /\ hash = XXH64(cfg, Empty, 0, op.seed)

\* C9: a zero-length update is valid. In all four families an update with
\* a non-null pointer and length 0 returns XXH_OK and leaves the lanes, the
\* buffer, the pending count, the total length and the flag, and so the
\* digest, as they were.
ZeroLength_Update ==
    [][op'.name = "update" /\ ~op'.null /\ op'.len = 0 =>
          /\ ret' = XXH_OK
          /\ state' = state
          /\ Digest(cfg, family, state'[op'.slot]) = Digest(cfg, family, state[op'.slot])]_vars

ZeroLength_MidStream ==
    /\ family = "XXH64a"
    /\ op.name = "update" /\ ~op.null /\ op.len = 0 /\ ret = XXH_OK
    /\ pieces[1] = 2
    /\ state[1].memsize > 0
    /\ Len(stream[1]) > BlockSize(family)

\* C10: canonical round trip. On a little-endian and on a big-endian host,
\* XXH32_hashFromCanonical gives back the 32-bit value that
\* XXH32_canonicalFromHash wrote, and XXH64_hashFromCanonical the 64-bit
\* value that XXH64_canonicalFromHash wrote.
Canonical_RoundTrip ==
    [][op'.name = "hashFromCanonical" =>
          /\ Len(canonical) = 2 * Len(hash)
          /\ hash' = hash]_vars

Canonical_ReadBack ==
    /\ cfg.cpuLE
    /\ family = "XXH32"
    /\ op.name = "hashFromCanonical"
    /\ hash = XXH32_hashFromCanonical(cfg, Region(128, canonical, 0))
    /\ hash # XXH_swap32(hash)

\* byte i (from 0) of the value h counted from its most significant byte
MSByte(h, i) == (h[Len(h) - (i \div 2)] \div (IF i % 2 = 0 THEN 256 ELSE 1)) % 256

\* C11: the canonical form is big-endian whatever the host byte order. Byte
\* i of what XXH32_canonicalFromHash (i = 0..3) or XXH64_canonicalFromHash
\* (i = 0..7) writes is byte i of the hash counted from its most significant
\* byte, and a little-endian and a big-endian host write the same bytes.
Canonical_BigEndian ==
    op.name = "canonicalFromHash" =>
        /\ Len(canonical) = 2 * Len(hash)
        /\ \A i \in 0..(Len(canonical) - 1) : canonical[i + 1] = MSByte(hash, i)
        /\ CanonicalFromHash(DefaultBuild, hash) = canonical
        /\ CanonicalFromHash(BigEndianBuild, hash) = canonical

Canonical_OnBigEndianHost ==
    /\ ~cfg.cpuLE
    /\ family = "XXH64"
    /\ op.name = "canonicalFromHash"
    /\ canonical = XXH64_canonicalFromHash(cfg, hash)
    /\ canonical # Bytes(hash)

\* the bytes the update step that has just been taken on state s was given
Fed(s) == SubSeq(stream'[s], Len(stream[s]) + 1, Len(stream'[s]))

\* C12: alignment is not a correctness axis. For the same input bytes,
\* length and seed every one-shot function returns the same hash, and every
\* update leaves the same state and return code, whether the input lies at
\* an aligned address or not and whether XXH_FORCE_ALIGN_CHECK is 0 or 1.
Alignment_NoEffect ==
    [][/\ op'.name = "hash" =>
            \A c \in AlignCallers, chk \in BOOLEAN :
                hash' = Hash([cfg EXCEPT !.alignCheck = chk], family,
                             Region(c.addr, Chunk(0, op'.len), c.past), op'.len, op'.seed)
       /\ op'.name = "update" =>
            \A c \in AlignCallers, chk \in BOOLEAN :
                Update([cfg EXCEPT !.alignCheck = chk], family, state[1],
                       Region(c.addr, Fed(1), c.past), op'.len)
                    = [state |-> state'[1], ret |-> ret']]_vars

\* the build c on the host of the other byte order
OtherHost(c) == [c EXCEPT !.cpuLE = ~@]

OtherFormat(c) == [c EXCEPT !.forceNative = ~@]

\* C14: XXH_FORCE_NATIVE_FORMAT has no impact on a little-endian CPU: every
\* one-shot call, update and digest gives the same with the option 1 as with
\* the option 0. On a big-endian CPU with the option 1 the reads are the
\* native loads without a swap, and the one-shot hash of an input that
\* holds a word is not the one of the portable format.
NativeFormat_NoImpactOnLittleEndian ==
    [][/\ cfg.cpuLE =>
          /\ op'.name = "hash" =>
                \E c \in AlignCallers :
                    hash' = Hash(OtherFormat(cfg), family,
                                 Region(c.addr, Chunk(0, op'.len), c.past), op'.len, op'.seed)
          /\ op'.name = "update" =>
                \E c \in AlignCallers :
                    Update(OtherFormat(cfg), family, state[1],
                           Region(c.addr, Fed(1), c.past), op'.len)
                        = [state |-> state'[1], ret |-> ret']
          /\ op'.name = "digest" => hash' = Digest(OtherFormat(cfg), family, state[1])
       /\ (~cfg.cpuLE /\ cfg.forceNative /\ op'.name = "hash" /\ op'.len >= 4) =>
          /\ \A a \in {XXH_aligned, XXH_unaligned} :
                /\ XXH_readLE32_align(cfg, Region(Caller0.addr, Chunk(0, op'.len), 0), 0,
                                      Endian(cfg), a)
                     = NativeLoad(cfg, Region(Caller0.addr, Chunk(0, op'.len), 0), 0, 4)
                /\ XXH_readLE64_align(cfg, Region(Caller0.addr, Chunk(0, op'.len), 0), 0,
                                      Endian(cfg), a)
                     = NativeLoad(cfg, Region(Caller0.addr, Chunk(0, op'.len), 0), 0, 8)
          /\ \A c \in AlignCallers :
                hash' # Hash(OtherFormat(cfg), family,
                             Region(c.addr, Chunk(0, op'.len), c.past), op'.len, op'.seed)]_vars

\* a little-endian build with XXH_FORCE_NATIVE_FORMAT 1 that has streamed
\* across a stripe and taken the digest
NativeFormat_OnLittleEndian ==
    /\ cfg.cpuLE /\ cfg.forceNative
    /\ family = "XXH64"
    /\ op.name = "digest"
    /\ Len(stream[1]) > BlockSize(family)
    /\ state[1].memsize > 0
    /\ hash = XXH64_digest(DefaultBuild, state[1])

\* the base function a dual-lane function is set against
BaseFamily(f) == IF f = "XXH32a" THEN "XXH32" ELSE "XXH64"

\* C15: the dual-lane family is not bit-compatible with the base family. For
\* every input and seed, inputs shorter than one stripe included, XXH32a
\* returns a value different from XXH32 and XXH64a one different from XXH64.
DualLane_DiffersFromBase ==
    (op.name = "hash" /\ family \in {"XXH32a", "XXH64a"}) =>
        hash # Hash(cfg, BaseFamily(family),
                    Region(Caller0.addr, Chunk(0, op.len), Caller0.past), op.len, op.seed)

\* C16: pending-count invariant. In every state reached by reset, update,
\* digest and copy the pending-byte count memsize is below the stripe size
\* (16 for XXH32, 32 for XXH64, XXH32a and XXH64a), so the tail length that
\* digest hands to the finalizer is the same masked to the stripe size or not.
Memsize_BelowBlock ==
    \A s \in Slots :
        live[s] =>
            /\ state[s].memsize \in 0..(BlockSize(family) - 1)
            /\ state[s].memsize % 32 = state[s].memsize
            /\ Digest(cfg, family, [state[s] EXCEPT !.memsize = @ % BlockSize(family)])
                 = Digest(cfg, family, state[s])

Memsize_AfterBlocks ==
    /\ family = "XXH32a"
    /\ live[1] /\ live[2]
    /\ op.name = "update" /\ op.slot = 2
    /\ Len(stream[2]) > BlockSize(family)
    /\ state[2].memsize > 0
    /\ state[2].memsize = Len(stream[2]) % BlockSize(family)
    /\ pieces[2] = MaxPieces

\* the entered-block-path flag of a state: large_len, and for XXH64 the test
\* total_len >= 32 of XXH64_digest_endian
EnteredBlockPath(f, st) ==
    IF f = "XXH64" THEN GeSmall(st.total_len, 32) ELSE st.large_len # 0

\* C17: the entered-block-path flag is exact and monotone. After every step
\* the flag of a started state is set if and only if a stripe has been mixed
\* into its lanes, which is if and only if the bytes accepted since its reset
\* are at least one stripe (16 for XXH32, 32 for the others). A set flag
\* stays set over every update and digest, and a copy carries the flag of
\* its source and leaves the source's flag as it is.
LargeLen_ExactAndMonotone ==
    [][/\ \A s \in Slots :
            live'[s] =>
                /\ EnteredBlockPath(family, state'[s]) <=>
                      Len(stream'[s]) >= BlockSize(family)
                /\ EnteredBlockPath(family, state'[s]) <=>
                      state'[s].v # Reset(family, state'[s], seed'[s]).v
                /\ (/\ live[s]
                    /\ EnteredBlockPath(family, state[s])
                    /\ ~(op'.name \in {"reset", "copyState"} /\ op'.slot = s))
                       => EnteredBlockPath(family, state'[s])
       /\ op'.name = "copyState" =>
            \A s \in Slots \ {op'.slot} :
                /\ EnteredBlockPath(family, state'[op'.slot])
                      <=> EnteredBlockPath(family, state[s])
                /\ EnteredBlockPath(family, state'[s]) <=> EnteredBlockPath(family, state[s])]_vars

\* a state whose flag was set by an earlier update and that has then taken
\* a short update
LargeLen_KeptByShortUpdate ==
    /\ family = "XXH32"
    /\ op.name = "update" /\ op.slot = 1 /\ op.len = SmallLen
    /\ Len(stream[1]) = BlockSize(family) + 1 + SmallLen
    /\ state[1].large_len = 1
    /\ state[1].memsize = 1 + SmallLen

\* the build c with XXH_VECTORIZE set the other way
OtherLoops(c) == [c EXCEPT !.vectorize = ~@]

\* C18: vectorization is not a correctness axis. On a little-endian host
\* every one-shot hash and every digest is the same with the vectorized
\* block loops as with the scalar ones, lengths that are multiples of 32
\* such as 64 included.
Vectorize_NoEffect ==
    cfg.cpuLE =>
        /\ op.name = "hash" =>
              \E c \in AlignCallers :
                  hash = Hash(OtherLoops(cfg), family,
                              Region(c.addr, Chunk(0, op.len), c.past), op.len, op.seed)
        /\ op.name = "digest" => hash = Digest(OtherLoops(cfg), family, state[1])

\* the state that the updates of the lengths lens, fed from position pos of
\* the caller's data on, leave of the state st when nothing else runs
RECURSIVE Replay(_, _, _)
Replay(st, pos, lens) ==
    IF lens = <<>> THEN st
    ELSE Replay(Update(cfg, family, st,
                       Region(Caller0.addr, Chunk(pos, Head(lens)), Caller0.past),
                       Head(lens)).state,
                pos + Head(lens), Tail(lens))

RECURSIVE SumSeq(_)
SumSeq(q) == IF q = <<>> THEN 0 ELSE Head(q) + SumSeq(Tail(q))

\* the sequences of update lengths that make up the stream of state s
Histories(s) ==
    {h \in [1..pieces[s] -> CopyLens(family)] : SumSeq(h) = Len(stream[s])}

\* what the reset and the updates of state s give on a state of their own
RunAlone(s) ==
    {Replay(Reset(family, Uninit(family), seed[s]), 0, h) : h \in Histories(s)}

\* C19: independent states do not interfere. Whatever resets, updates,
\* digests and copies have been interleaved on the two states, each started
\* state is the one that its own reset and its own updates produce when they
\* run alone on a state of their own, and each digest is the digest of that
\* state: no step on one state has changed or used a field of the other.
States_DoNotInterfere ==
    /\ \A s \in Slots : live[s] => state[s] \in RunAlone(s)
    /\ op.name = "digest" =>
          hash \in {Digest(cfg, family, st) : st \in RunAlone(op.slot)}

\* two started states that were fed different data in turn
States_Interleaved ==
    /\ family = "XXH32a"
    /\ live[1] /\ live[2]
    /\ branch # <<>>
    /\ branch[1] = <<SmallLen>> /\ branch[2] = <<BlockSize(family) + 1, SmallLen>>
    /\ stream[1] # stream[2]
    /\ op.name = "digest" /\ op.slot = 1

\* where in the input the block loop of update(st, input, len) starts, after
\* the pending buffer is completed, and where it ends
UpdateSpan(f, st, input, len) ==
    CASE f = "XXH32" ->
            << XXH32_update_flush(cfg, st, input, Endian(cfg))[2],
               XXH32_update_blocks(cfg, XXH32_update_flush(cfg, st, input, Endian(cfg)),
                                   input, len, Endian(cfg))[2] >>
      [] f = "XXH64" ->
            << XXH64_update_flush(cfg, st, input, Endian(cfg))[2],
               XXH64_update_blocks(cfg, XXH64_update_flush(cfg, st, input, Endian(cfg)),
                                   input, len, Endian(cfg))[2] >>
      [] OTHER ->
            << XXH32a_update_flush(cfg, st, input, Endian(cfg))[2],
               XXH32a_update_blocks(cfg, XXH32a_update_flush(cfg, st, input, Endian(cfg)),
                                    input, len, Endian(cfg))[2] >>

\* the reads and writes of update(st, input, len) stay inside the input and
\* the pending buffer
UpdateInBounds(f, st, input, len) ==
    IF st.memsize + len < BlockSize(f)
    THEN st.memsize + len <= BlockSize(f)
    ELSE /\ UpdateSpan(f, st, input, len)[1] \in 0..len
         /\ UpdateSpan(f, st, input, len)[2] > UpdateSpan(f, st, input, len)[1]
               => len - UpdateSpan(f, st, input, len)[1] >= BlockSize(f)
         /\ UpdateSpan(f, st, input, len)[2] <= len
         /\ len - UpdateSpan(f, st, input, len)[2] < BlockSize(f)

\* C20: memory bounds of update. For every reachable state and every update
\* with a non-null input, in all four families, the bytes read lie inside
\* the len bytes of the input and the bytes written inside the pending
\* buffer: the block loop is entered only with a whole stripe of unread
\* input left, it ends inside the input with less than a stripe left, and
\* what lies in memory behind the input has no effect on the state.
Update_InBounds ==
    live[1] =>
        \A len \in ChunkLens(family) :
            /\ UpdateInBounds(family, state[1], Input(1, Caller0, len), len)
            /\ \A c \in Callers :
                  Update(cfg, family, state[1], Input(1, c, len), len)
                    = Update(cfg, family, state[1], Input(1, Caller0, len), len)

\* the lanes v after the stripe of family f at position p of m
Stripe(f, v, m, p) ==
    CASE f = "XXH32" -> XXH32_stripe(cfg, v, m, p, Endian(cfg), XXH_unaligned)
      [] f = "XXH64" -> XXH64_stripe(cfg, v, m, p, Endian(cfg), XXH_unaligned)
      [] OTHER       -> XXH32a_stripe(cfg, v, m, p, Endian(cfg), XXH_unaligned)

\* the lanes v after n stripes of m taken in order from position p on
RECURSIVE Mixed(_, _, _, _, _)
Mixed(f, v, m, p, n) ==
    IF n = 0 THEN v ELSE Mixed(f, Stripe(f, v, m, p), m, p + BlockSize(f), n - 1)

\* state s accounts for its stream: the whole stripes of the stream are mixed
\* into the lanes once each and in order, and the rest of it is pending
Accounted(s) ==
    /\ state[s].memsize = Len(stream[s]) % BlockSize(family)
    /\ SubSeq(state[s].mem, 1, state[s].memsize)
         = SubSeq(stream[s], Len(stream[s]) - state[s].memsize + 1, Len(stream[s]))
    /\ state[s].v = Mixed(family, Reset(family, state[s], seed[s]).v,
                          Region(Caller0.addr, stream[s], Caller0.past), 0,
                          Len(stream[s]) \div BlockSize(family))

\* C21: dual-lane update accounting. For XXH32a and XXH64a an update of n
\* bytes on m pending bytes with m + n >= 32 mixes floor((m + n) / 32)
\* stripes, the completed buffer first and then whole stripes of the input
\* in stream order, and leaves (m + n) mod 32 bytes pending, the last bytes
\* of the stream: after every update the state accounts for its stream.
DualLane_UpdateAccounting ==
    (family \in {"XXH32a", "XXH64a"} /\ live[1]) => Accounted(1)

\* C22: base-family length and buffer invariant. After any resets and
\* successful updates of an XXH32 or XXH64 state, memsize is the accepted
\* length modulo the stripe size (16, 32), the pending buffer holds the last
\* memsize bytes of the stream, the lanes hold floor(length / stripe size)
\* stripes, and the length counter is the accepted length; so XXH64_digest,
\* which hands total_len to the finalizer, finalizes over memsize bytes.
Base_LengthAndBuffer ==
    (family \in {"XXH32", "XXH64"} /\ live[1]) =>
        /\ Accounted(1)
        /\ TotalLen(family, state[1])
             = (IF family = "XXH32" THEN U32(Len(stream[1])) ELSE U64(Len(stream[1])))
        /\ family = "XXH64" =>
              /\ state[1].total_len[1] % 32 = state[1].memsize
              /\ XXH64_finalize(cfg, seed[1], MemOf(state[1]), 0, state[1].total_len[1],
                                Endian(cfg), XXH_aligned)
                   = XXH64_finalize(cfg, seed[1], MemOf(state[1]), 0, state[1].memsize,
                                    Endian(cfg), XXH_aligned)

\* an XXH64 state fed in three pieces across a stripe, with bytes pending
Base_StreamedAcrossBlock ==
    /\ family = "XXH64"
    /\ live[1]
    /\ pieces[1] = MaxPieces
    /\ Len(stream[1]) > BlockSize(family)
    /\ state[1].memsize = Len(stream[1]) - BlockSize(family)
    /\ state[1].memsize > SmallLen
    /\ op.name = "digest"

\* the state st of family f with len added to its length counter
Counted(f, st, len) ==
    IF f = "XXH64" THEN [st EXCEPT !.total_len = Add(@, U64(len))]
    ELSE [st EXCEPT !.total_len_32 = Add(@, U32(len))]

\* C23: buffer-only update. In all four families an update of n bytes from
\* a non-null input on m pending bytes with m + n below the stripe size
\* returns XXH_OK, writes the n bytes after the m pending ones, sets the
\* pending count to m + n and adds n to the total length; the lanes, the
\* first m bytes and the rest of the buffer, and every other field stay
\* as they were.
Update_BufferOnly ==
    [][(/\ op'.name = "update" /\ ~op'.null
        /\ state[1].memsize + op'.len < BlockSize(family)) =>
          /\ ret' = XXH_OK
          /\ Len(Fed(1)) = op'.len
          /\ state'[1].v = state[1].v
          /\ state'[1]
               = [Counted(family, state[1], op'.len)
                    EXCEPT !.mem = SubSeq(state[1].mem, 1, state[1].memsize)
                                   \o Fed(1)
                                   \o SubSeq(state[1].mem, state[1].memsize + op'.len + 1,
                                             Len(state[1].mem)),
                           !.memsize = state[1].memsize + op'.len]]_vars

\* a short update on bytes left pending by an update across a stripe
Update_BufferedAfterBlock ==
    /\ family = "XXH32a"
    /\ op.name = "update" /\ ~op.null /\ op.len = SmallLen /\ ret = XXH_OK
    /\ Len(stream[1]) = BlockSize(family) + 1 + SmallLen
    /\ state[1].memsize = 1 + SmallLen
    /\ SubSeq(state[1].mem, 1, state[1].memsize) = Chunk(BlockSize(family), 1 + SmallLen)

\* the lanes and the position that the scalar stripe loop of the one-shot
\* function of family f returns for input, len and seed sd
Engine(f, input, len, sd) ==
    CASE f = "XXH32" ->
            XXH32_loop(cfg, XXH32_lanes(sd), input, 0, len - 15, TRUE, Endian(cfg),
                       XXH_alignOf(cfg, input, 3))
      [] f = "XXH64" ->
            XXH64_loop(cfg, XXH64_lanes(sd), input, 0, len - 32, TRUE, Endian(cfg),
                       XXH_alignOf(cfg, input, 7))
      [] f = "XXH32a" ->
            XXH32a_XXH64a_endian_align(cfg, <<XXH32_lanes(sd), XXH32_lanes(sd)>>, input, 0, len,
                                       Endian(cfg), XXH32a_alignOf(input))
      [] f = "XXH64a" ->
            XXH32a_XXH64a_endian_align(cfg, XXH64a_lanes(sd), input, 0, len, Endian(cfg),
                                       XXH32a_alignOf(input))

\* the little-endian word of the n bytes at offset o of bytes
LEWord(bytes, o, n) == Word(SubSeq(bytes, o + 1, o + n))

\* one lane of family f, from the value v, after round with the chunk at
\* offset off of each of the stripes k .. n - 1 of bytes
RECURSIVE LaneAfter(_, _, _, _, _, _)
LaneAfter(f, v, bytes, off, k, n) ==
    IF k >= n THEN v
    ELSE LaneAfter(f,
                   IF f = "XXH64"
                   THEN XXH64_round(v, LEWord(bytes, k * 32 + off, 8))
                   ELSE XXH32_round(v, LEWord(bytes, k * BlockSize(f) + off, 4)),
                   bytes, off, k + 1, n)

\* all lanes of family f seeded with sd after the first n stripes of bytes
LanesAfter(f, sd, bytes, n) ==
    CASE f = "XXH32" ->
            [i \in 1..4 |-> LaneAfter(f, XXH32_lanes(sd)[i], bytes, 4 * (i - 1), 0, n)]
      [] f = "XXH64" ->
            [i \in 1..4 |-> LaneAfter(f, XXH64_lanes(sd)[i], bytes, 8 * (i - 1), 0, n)]
      [] f = "XXH32a" ->
            [g \in 1..2 |-> [i \in 1..4 |->
                LaneAfter(f, XXH32_lanes(sd)[i], bytes, 16 * (g - 1) + 4 * (i - 1), 0, n)]]
      [] f = "XXH64a" ->
            [g \in 1..2 |-> [i \in 1..4 |->
                LaneAfter(f, XXH64a_lanes(sd)[g][i], bytes, 16 * (g - 1) + 4 * (i - 1), 0, n)]]

\* the hash that the finalizer of family f gives from the lanes v, the
\* length len and the n tail bytes at position p of input
Finished(f, v, input, p, len, n) ==
    CASE f = "XXH32" ->
            XXH32_finalize(cfg, Add(XXH32_merge(v), U32(len)), input, p, n, Endian(cfg),
                           XXH_alignOf(cfg, input, 3))
      [] f = "XXH64" ->
            XXH64_finalize(cfg, Add(XXH64_merge(v), U64(len)), input, p, n, Endian(cfg),
                           XXH_alignOf(cfg, input, 7))
      [] f = "XXH32a" ->
            XXH32_finalize(cfg, Add(XXH32_merge(XXH32a_fold(v)), U32(len)), input, p, n,
                           Endian(cfg), XXH32a_alignOf(input))
      [] f = "XXH64a" ->
            XXH64_finalize(cfg, Add(XXH64_merge(XXH64a_join(v)), Ext64(U32(len))), input, p, n,
                           Endian(cfg), XXH32a_alignOf(input))

\* C24: the scalar one-shot block engine. For every length of at least one
\* stripe the loops of XXH32 (16-byte stripes), XXH64 (32-byte stripes) and
\* of the dual-lane functions (32-byte stripes, 8 lanes) end, having taken
\* floor(len / stripe) stripes in order, chunk i of each stripe by round
\* into lane i alone, and the finalizer gets the len mod stripe bytes that
\* start at stripe * floor(len / stripe). (Reads in the portable format.)
Engine_WholeBlocksInOrder ==
    (/\ op.name = "hash" /\ op.len >= BlockSize(family)
     /\ ~cfg.vectorize /\ (cfg.cpuLE \/ ~cfg.forceNative)) =>
        /\ \A c \in AlignCallers :
              Engine(family, Region(c.addr, Chunk(0, op.len), c.past), op.len, op.seed)
                = << LanesAfter(family, op.seed, Chunk(0, op.len),
                                op.len \div BlockSize(family)),
                     BlockSize(family) * (op.len \div BlockSize(family)) >>
        /\ \E c \in AlignCallers :
              hash = Finished(family,
                              LanesAfter(family, op.seed, Chunk(0, op.len),
                                         op.len \div BlockSize(family)),
                              Region(c.addr, Chunk(0, op.len), c.past),
                              BlockSize(family) * (op.len \div BlockSize(family)),
                              op.len, op.len % BlockSize(family))

\* XXH64 of two whole stripes by the scalar loop
Engine_TwoBlocks ==
    /\ family = "XXH64"
    /\ ~cfg.vectorize /\ cfg.cpuLE
    /\ op.name = "hash" /\ op.len = 2 * BlockSize(family)
    /\ Engine(family, Region(Caller0.addr, Chunk(0, op.len), Caller0.past), op.len,
              op.seed)[2] = op.len
    /\ hash = XXH64(cfg, Region(Caller0.addr, Chunk(0, op.len), Caller0.past), op.len, op.seed)

\* seed + PRIME32_5 or seed + PRIME64_5, and the combination of the lanes v
SeedStart(f, sd) ==
    IF f \in {"XXH32", "XXH32a"} THEN Add(sd, PRIME32_5) ELSE Add(sd, PRIME64_5)

Combined(f, v) ==
    CASE f = "XXH32"  -> XXH32_merge(v)
      [] f = "XXH64"  -> XXH64_merge(v)
      [] f = "XXH32a" -> XXH32_merge(XXH32a_fold(v))
      [] f = "XXH64a" -> XXH64_merge(XXH64a_join(v))

\* the lane that digest reads as the seed
SeedLane(f, st) ==
    CASE f \in {"XXH32", "XXH64"} -> st.v[3]
      [] f = "XXH32a"             -> st.v[1][3]
      [] f = "XXH64a"             -> Join64(st.v[1][3], st.v[2][3])

\* the hash that results when the running hash starts from h: the length
\* word total is added and the n tail bytes at position p of m are finalized
StartedFrom(f, h, m, p, total, n, align) ==
    CASE f \in {"XXH32", "XXH32a"} ->
            XXH32_finalize(cfg, Add(h, total), m, p, n, Endian(cfg), align)
      [] f = "XXH64" ->
            XXH64_finalize(cfg, Add(h, total), m, p, n, Endian(cfg), align)
      [] f = "XXH64a" ->
            XXH64_finalize(cfg, Add(h, Ext64(total)), m, p, n, Endian(cfg), align)

\* the alignment the one-shot function of family f works with
OneShotAlign(f, input) ==
    CASE f = "XXH32" -> XXH_alignOf(cfg, input, 3)
      [] f = "XXH64" -> XXH_alignOf(cfg, input, 7)
      [] OTHER       -> XXH32a_alignOf(input)

\* the one-shot hash of len bytes at input started from h at position p
OneShotFrom(f, h, input, p, len) ==
    StartedFrom(f, h, input, p, IF f = "XXH64" THEN U64(len) ELSE U32(len),
                len % BlockSize(f), OneShotAlign(f, input))

\* the digest of the state st started from h
DigestFrom(f, h, st) ==
    StartedFrom(f, h, MemOf(st), 0, TotalLen(f, st), st.memsize, XXH_aligned)

\* C25: short-input path selection. Each one-shot function and each digest
\* starts the running hash from seed + PRIME_5, without the lanes, if and
\* only if the total length is below one stripe (16 for XXH32, 32 for the
\* others), and from the combination of the lanes otherwise; and while a
\* stream is shorter than a stripe the lane that digest reads as the seed
\* is the seed given to reset.
ShortPath_Selection ==
    /\ op.name = "hash" =>
          \E c \in AlignCallers :
              LET in == Region(c.addr, Chunk(0, op.len), c.past)
                  b  == BlockSize(family)
              IN  IF op.len < b
                  THEN hash = OneShotFrom(family, SeedStart(family, op.seed), in, 0, op.len)
                  ELSE /\ hash # OneShotFrom(family, SeedStart(family, op.seed), in,
                                             b * (op.len \div b), op.len)
                       /\ ~cfg.vectorize =>
                             hash = OneShotFrom(family,
                                                Combined(family,
                                                         Engine(family, in, op.len, op.seed)[1]),
                                                in, b * (op.len \div b), op.len)
    /\ op.name = "digest" =>
          IF Len(stream[1]) < BlockSize(family)
          THEN hash = DigestFrom(family, SeedStart(family, seed[1]), state[1])
          ELSE /\ hash = DigestFrom(family, Combined(family, state[1].v), state[1])
               /\ hash # DigestFrom(family, SeedStart(family, seed[1]), state[1])
    /\ (live[1] /\ Len(stream[1]) < BlockSize(family)) =>
          SeedLane(family, state[1]) = seed[1]

\* XXH32a of 31 bytes: more than a stripe of XXH32, less than one of XXH32a
ShortPath_JustBelowBlock ==
    /\ family = "XXH32a"
    /\ op.name = "hash" /\ op.len = 31
    /\ hash = XXH32_finalize(cfg, Add(Add(op.seed, PRIME32_5), U32(31)),
                             Region(Caller0.addr, Chunk(0, 31), 0), 0, 31, Endian(cfg),
                             XXH_aligned)

\* k steps of size w
StepsOf(w, k) == [i \in 1..k |-> w]

\* the finalizer of family f before its avalanche: the pair <<h, p>> after
\* the steps of the switch for n tail bytes from position p of m
TailRun(f, h, m, p, n, align) ==
    IF f \in {"XXH32", "XXH32a"}
    THEN XXH32_steps(cfg, <<h, p>>, m, XXH32_switch(n % 32), Endian(cfg), align)
    ELSE XXH64_steps(cfg, <<h, p>>, m, XXH64_switch(n % 32), Endian(cfg), align)

TailAvalanche(f, h) ==
    IF f \in {"XXH32", "XXH32a"} THEN XXH32_avalanche(h) ELSE XXH64_avalanche(h)

\* the running hash that the one-shot function hands to the finalizer
OneShotStart(f, input, len, sd) ==
    Add(IF len < BlockSize(f) THEN SeedStart(f, sd)
        ELSE Combined(f, Engine(f, input, len, sd)[1]),
        CASE f = "XXH64"  -> U64(len)
          [] f = "XXH64a" -> Ext64(U32(len))
          [] OTHER        -> U32(len))

\* the running hash that digest hands to the finalizer
DigestStart(f, st, sd, total) ==
    Add(IF total < BlockSize(f) THEN SeedStart(f, sd) ELSE Combined(f, st.v),
        IF f = "XXH64a" THEN Ext64(TotalLen(f, st)) ELSE TotalLen(f, st))

\* the tail length that digest hands to the finalizer
DigestTail(f, st) == IF f = "XXH32" THEN st.memsize % 16 ELSE st.memsize

\* C26: finalizer coverage. For every tail length n in 0..31 the switch of
\* XXH32_finalize runs n \div 4 four-byte steps and then n % 4 one-byte
\* steps; the switch of XXH64_finalize has a case for n and its steps start
\* at tail byte 0 and end at tail byte n, each step reading on from where
\* the step before stopped. Every one-shot hash and every digest is the
\* avalanche of the running hash after these steps, and the steps end
\* exactly at the last tail byte.
Finalize_CoversTail ==
    /\ \A n \in 0..31 :
          /\ XXH32_switch(n) = StepsOf(4, n \div 4) \o StepsOf(1, n % 4)
          /\ TailRun("XXH32", U32(0), Region(Caller0.addr, Chunk(0, n), 0), 0, n,
                     XXH_unaligned)[2] = n
          /\ XXH64_switch(n) \in Seq({8, 4, 1})
          /\ TailRun("XXH64", U64(0), Region(Caller0.addr, Chunk(0, n), 0), 0, n,
                     XXH_unaligned)[2] = n
    /\ (op.name = "hash" /\ (~cfg.vectorize \/ op.len < BlockSize(family))) =>
          \E c \in AlignCallers :
              LET in == Region(c.addr, Chunk(0, op.len), c.past)
                  b  == BlockSize(family)
                  hp == TailRun(family, OneShotStart(family, in, op.len, op.seed), in,
                                b * (op.len \div b), op.len % b, OneShotAlign(family, in))
              IN  /\ hp[2] = op.len
                  /\ hash = TailAvalanche(family, hp[1])
    /\ op.name = "digest" =>
          LET hp == TailRun(family, DigestStart(family, state[1], seed[1], Len(stream[1])),
                            MemOf(state[1]), 0, DigestTail(family, state[1]), XXH_aligned)
          IN  /\ hp[2] = DigestTail(family, state[1])
              /\ hash = TailAvalanche(family, hp[1])

\* XXH64 of 63 bytes: the 31-byte tail takes three 8-byte steps, one 4-byte
\* step and three 1-byte steps
Finalize_LongestTail ==
    /\ family = "XXH64"
    /\ op.name = "hash" /\ op.len = 63
    /\ XXH64_switch(op.len % 32) = <<8, 8, 8, 4, 1, 1, 1>>
    /\ hash = XXH64_avalanche(
                  XXH64_steps(cfg,
                              <<OneShotStart("XXH64", Region(Caller0.addr, Chunk(0, 63), 0),
                                             63, op.seed), 32>>,
                              Region(Caller0.addr, Chunk(0, 63), 0),
                              <<8, 8, 8, 4, 1, 1, 1>>, Endian(cfg), XXH_aligned)[1])

\* the steps for n tail bytes as the description has them, and with the
\* 4-byte step of the source between the 8-byte and the single-byte steps
WordsThenBytes(n) == StepsOf(8, n \div 8) \o StepsOf(1, n % 8)

WordsHalfBytes(n) ==
    StepsOf(8, n \div 8) \o StepsOf(4, (n % 8) \div 4) \o StepsOf(1, n % 4)

\* every hash of the 64-bit finalizer is the avalanche of the running hash
\* after the steps StepList(n) over its n tail bytes
Finalize64_Runs(steps) ==
    /\ (op.name = "hash" /\ family \in {"XXH64", "XXH64a"}
           /\ (~cfg.vectorize \/ op.len < 32)) =>
          \E c \in AlignCallers :
              LET in == Region(c.addr, Chunk(0, op.len), c.past)
              IN  hash = XXH64_avalanche(
                             XXH64_steps(cfg, <<OneShotStart(family, in, op.len, op.seed),
                                                32 * (op.len \div 32)>>,
                                         in, steps[op.len % 32], Endian(cfg),
                                         OneShotAlign(family, in))[1])
    /\ (op.name = "digest" /\ family \in {"XXH64", "XXH64a"}) =>
          hash = XXH64_avalanche(
                     XXH64_steps(cfg, <<DigestStart(family, state[1], seed[1],
                                                    Len(stream[1])), 0>>,
                                 MemOf(state[1]), steps[state[1].memsize], Endian(cfg),
                                 XXH_aligned)[1])

\* C27 as stated: for every tail length n in 0..31, XXH64_finalize runs
\* n \div 8 eight-byte steps and then n % 8 single-byte steps before the
\* avalanche.
Finalize64_WordsThenBytes ==
    /\ \A n \in 0..31 : XXH64_switch(n) = WordsThenBytes(n)
    /\ Finalize64_Runs([n \in 0..31 |-> WordsThenBytes(n)])

\* C27: 64-bit finalizer granularity. For every tail length n in 0..31,
\* XXH64_finalize runs n \div 8 eight-byte steps, then one 4-byte step if
\* at least 4 bytes remain, then the remaining n % 4 bytes one at a time
\* with the single-byte step, before the avalanche.
Finalize64_WordsHalfBytes ==
    /\ \A n \in 0..31 : XXH64_switch(n) = WordsHalfBytes(n)
    /\ Finalize64_Runs([n \in 0..31 |-> WordsHalfBytes(n)])

\* XXH64 of 31 bytes: three 8-byte steps, the 4-byte step, three bytes
Finalize64_HalfWordTaken ==
    /\ family = "XXH64"
    /\ op.name = "hash" /\ op.len = 31
    /\ WordsHalfBytes(31) = <<8, 8, 8, 4, 1, 1, 1>>
    /\ hash = XXH64_finalize(cfg, Add(Add(op.seed, PRIME64_5), U64(31)),
                             Region(Caller0.addr, Chunk(0, 31), 0), 0, 31, Endian(cfg),
                             XXH_aligned)
    /\ hash # XXH64_avalanche(
                  XXH64_steps(cfg, <<Add(Add(op.seed, PRIME64_5), U64(31)), 0>>,
                              Region(Caller0.addr, Chunk(0, 31), 0), WordsThenBytes(31),
                              Endian(cfg), XXH_aligned)[1])

\* C28: empty and block-aligned inputs still avalanche. The hash of the
\* empty input with seed S is the avalanche of S + PRIME32_5 (32-bit
\* families) or S + PRIME64_5 (64-bit families), with no round and no
\* tail step: for seed 0 these are 02CC5D05 and EF46DB3751D8E999. The hash
\* of an input whose length is a positive multiple of the stripe size, and
\* the digest of a state with an empty buffer, is the avalanche of the
\* lane combination plus the length, with no tail step.
EmptyAndAligned_Avalanche ==
    /\ (op.name = "hash" /\ op.len = 0) =>
          /\ hash = TailAvalanche(family, SeedStart(family, op.seed))
          /\ (family = "XXH32" /\ op.seed = U32(0)) => hash = <<23813, 716>>
          /\ (family = "XXH64" /\ op.seed = U64(0)) => hash = <<59801, 20952, 56119, 61254>>
    /\ (op.name = "hash" /\ op.len > 0 /\ op.len % BlockSize(family) = 0
           /\ ~cfg.vectorize) =>
          \E c \in AlignCallers :
              hash = TailAvalanche(family,
                                   OneShotStart(family,
                                                Region(c.addr, Chunk(0, op.len), c.past),
                                                op.len, op.seed))
    /\ (op.name = "digest" /\ DigestTail(family, state[1]) = 0) =>
          hash = TailAvalanche(family,
                               DigestStart(family, state[1], seed[1], Len(stream[1])))

\* XXH32 of two stripes: lanes combined, 32 added, avalanche, and nothing
\* else
EmptyAndAligned_TwoStripes ==
    /\ family = "XXH32"
    /\ op.name = "hash" /\ op.len = 32
    /\ hash = XXH32_avalanche(
                  Add(XXH32_merge(Mixed("XXH32", XXH32_lanes(op.seed),
                                        Region(Caller0.addr, Chunk(0, 32), 0), 0, 2)),
                      U32(32)))

\* the low and the high 32 bits of a 64-bit word, and the four 64-bit words
\* whose low halves are the lanes of group 0 and whose high halves are the
\* lanes of group 1
LowHalf(w) == SubSeq(w, 1, 2)

HighHalf(w) == SubSeq(w, 3, 4)

Paired(v) == [i \in 1..4 |-> v[1][i] \o v[2][i]]

\* C29: XXH64a lane pairing. XXH64a_reset and the XXH64a one-shot seed the
\* lanes of group 0 from the low 32 bits of the seed and those of group 1
\* from the high 32 bits; in the one-shot and in the digest each 64-bit lane
\* given to the 64-bit combination has the group-0 lane as its low half and
\* the group-1 lane as its high half.
XXH64a_LanePairing ==
    family = "XXH64a" =>
       /\ (live[1] /\ op.name = "reset") =>
             state[1].v = <<XXH32_lanes(LowHalf(seed[1])), XXH32_lanes(HighHalf(seed[1]))>>
       /\ (live[1] /\ Len(stream[1]) < 32) =>
             /\ LowHalf(seed[1]) = state[1].v[1][3]
             /\ HighHalf(seed[1]) = state[1].v[2][3]
       /\ (op.name = "hash" /\ op.len >= 32) =>
             \E c \in AlignCallers :
                 LET in == Region(c.addr, Chunk(0, op.len), c.past)
                     lp == XXH32a_XXH64a_endian_align(cfg,
                               <<XXH32_lanes(LowHalf(op.seed)), XXH32_lanes(HighHalf(op.seed))>>,
                               in, 0, op.len, Endian(cfg), XXH32a_alignOf(in))
                 IN  hash = OneShotFrom("XXH64a", XXH64_merge(Paired(lp[1])), in, lp[2], op.len)
       /\ (op.name = "digest" /\ Len(stream[1]) >= 32) =>
             hash = DigestFrom("XXH64a", XXH64_merge(Paired(state[1].v)), state[1])

\* a digest of XXH64a after a stripe, with a seed whose halves differ
XXH64a_PairedDigest ==
    /\ family = "XXH64a"
    /\ op.name = "digest" /\ Len(stream[1]) >= 32
    /\ LowHalf(seed[1]) # HighHalf(seed[1])
    /\ state[1].v[1] # state[1].v[2]
    /\ hash = DigestFrom("XXH64a", XXH64_merge(Paired(state[1].v)), state[1])

\* the total length of the stream of SpecWrap as a 64-bit word
Total64 == Add(Add(U64(HugeLen), U64(HugeLen)), U64(Len(stream[1])))

\* what the one-shot function of the family adds for that length:
\* (U32)len, and len itself for XXH64
LengthAdded == IF family = "XXH64" THEN Total64 ELSE Trunc32(Total64)

\* C30: length mixing under wrap-around. The length a digest adds to the
\* running hash is the total length modulo 2^32 for XXH32, XXH32a and XXH64a
\* and the full 64-bit length for XXH64, which is what the one-shot
\* function adds for the same length; and when total_len_32 wraps around
\* the flag that tells that a stripe was taken in stays set.
LengthMixing_WrapAround ==
    /\ TotalLen(family, state[1]) = LengthAdded
    /\ family # "XXH64" => state[1].large_len # 0
    /\ family = "XXH64" => GeSmall(state[1].total_len, 32)
    /\ op.name = "digest" =>
          hash = StartedFrom(family, Combined(family, state[1].v), MemOf(state[1]), 0,
                             LengthAdded, DigestTail(family, state[1]), XXH_aligned)

\* a digest of XXH32a after total_len_32 wrapped around to 1
LengthMixing_Wrapped ==
    /\ family = "XXH32a"
    /\ op.name = "digest"
    /\ Len(stream[1]) = 33
    /\ state[1].total_len_32 = U32(1)
    /\ state[1].large_len = 1
    /\ hash # DigestFrom(family, SeedStart(family, seed[1]), state[1])
====
